---- MODULE Spec2Model ----
(***************************************************************************)
(* Session runner and permission broker of Claude-Cowork                   *)
(* (src/electron/libs/runner.ts).                                          *)
(*                                                                         *)
(* JavaScript runs every callback to completion on one thread, so each     *)
(* action below is one callback: a canUseTool invocation by the engine, a  *)
(* permission response, a timer callback, an abort() call.                 *)
(*                                                                         *)
(* Strings the code inspects character by character (tool names and the    *)
(* allowedTools setting) are sequences of character codes.                 *)
(***************************************************************************)
EXTENDS Integers, Sequences, FiniteSets, TLC

VARIABLES
    session,             \* session id -> the Session fields the runner reads
    pendingPermissions,  \* session id -> Map toolUseId -> entry
    run,                 \* run -> the constants runClaude captured, and its abort signal
    calls,               \* run -> sequence of canUseTool invocations (promise, timer)
    events,              \* session id -> events handed to onEvent, in order
    nextId,              \* source of crypto.randomUUID()
    lastOp,              \* the callback that ran last
    status,              \* session id -> session.status, which the caller maintains
    claudeSessionId,     \* session id -> session.claudeSessionId
    stream,              \* run -> the engine's stream and the loop that consumes it
    handing,             \* the permission.request onEvent is being called with
    manager,             \* the MCPManager object and its fields
    processes,           \* the server processes spawn() started, in order
    initCalls            \* the calls of MCPManager.initialize(), in order

brokerVars == <<session, pendingPermissions, run, calls, events, nextId, lastOp>>
streamVars == <<status, claudeSessionId, stream, handing>>
mcpVars == <<manager, processes, initCalls>>
vars == <<session, pendingPermissions, run, calls, events, nextId, lastOp,
          status, claudeSessionId, stream, handing, manager, processes, initCalls>>

-----------------------------------------------------------------------------
(* Bounds *)

MaxCalls == 2       \* canUseTool invocations per run
MaxMessages == 2    \* events the engine's stream yields per run
MaxLen == 2         \* characters of an allowedTools setting that names no tool
MaxInits == 2       \* calls of MCPManager.initialize()

Sessions == {"s1", "s2"}
Runs == {1, 2}
Ids == 1..(MaxCalls + 1)     \* identifiers a response may name

-----------------------------------------------------------------------------
(* Characters and strings *)

Comma == <<44>>
Space == <<32>>

Read == <<82, 101, 97, 100>>
READ == <<82, 69, 65, 68>>
Bash == <<66, 97, 115, 104>>
Grep == <<71, 114, 101, 112>>
AskUserQuestion ==
    <<65, 115, 107, 85, 115, 101, 114, 81, 117, 101, 115, 116, 105, 111, 110>>

IsSpace(c) == c \in {9, 10, 11, 12, 13, 32}

SetMin(S) == CHOOSE x \in S : \A y \in S : x <= y
SetMax(S) == CHOOSE x \in S : \A y \in S : x >= y

\* String.prototype.trim
trim(s) ==
    LET solid == {i \in 1..Len(s) : ~IsSpace(s[i])}
    IN  IF solid = {} THEN <<>> ELSE SubSeq(s, SetMin(solid), SetMax(solid))

\* String.prototype.toLowerCase on ASCII
toLowerCase(s) ==
    [i \in 1..Len(s) |-> IF s[i] \in 65..90 THEN s[i] + 32 ELSE s[i]]

\* String.prototype.split with a one-character separator
RECURSIVE split(_, _)
split(s, sep) ==
    LET hits == {i \in 1..Len(s) : s[i] = sep}
    IN  IF hits = {} THEN <<s>>
        ELSE LET k == SetMin(hits)
             IN  <<SubSeq(s, 1, k - 1)>> \o split(SubSeq(s, k + 1, Len(s)), sep)

-----------------------------------------------------------------------------
(* Allowed tools *)

Undefined == [defined |-> FALSE, text |-> <<>>]
Text(s) == [defined |-> TRUE, text |-> s]

Null == [isNull |-> TRUE, items |-> {}]
SetOf(S) == [isNull |-> FALSE, items |-> S]

parseAllowedTools(allowedTools) ==
    IF ~allowedTools.defined \/ trim(allowedTools.text) = <<>>
    THEN Null
    ELSE LET parts == split(allowedTools.text, 44)
             kept == {i \in 1..Len(parts) : trim(parts[i]) # <<>>}
         IN  SetOf({toLowerCase(trim(parts[i])) : i \in kept})

\* has(toolName) without the toLowerCase
isToolAllowedCaseSensitive(toolName, allowedTools) ==
    IF toolName = AskUserQuestion THEN TRUE
    ELSE IF allowedTools.isNull THEN TRUE
    ELSE toolName \in allowedTools.items

\* Without the AskUserQuestion exemption of line 113
isToolAllowedNoExemption(toolName, allowedTools) ==
    IF allowedTools.isNull THEN TRUE
    ELSE toLowerCase(toolName) \in allowedTools.items

isToolAllowed(toolName, allowedTools) ==
    IF toolName = AskUserQuestion THEN TRUE
    ELSE IF allowedTools.isNull THEN TRUE
    ELSE toLowerCase(toolName) \in allowedTools.items

\* The mode test of line 142 taken the wrong way round
gateOutcomeModeSwapped(toolName, permissionMode, allowedTools) ==
    IF toolName # AskUserQuestion /\ permissionMode # "free"
    THEN IF ~isToolAllowed(toolName, allowedTools) THEN "deny" ELSE "allow"
    ELSE IF ~isToolAllowed(toolName, allowedTools) THEN "deny" ELSE "ask"

\* Without the free-mode shortcut of lines 142-151
gateOutcomeNoShortcut(toolName, permissionMode, allowedTools) ==
    IF ~isToolAllowed(toolName, allowedTools) THEN "deny" ELSE "ask"

\* A gate that denies while some request is pending
gateOutcomeWhilePending(toolName, permissionMode, allowedTools) ==
    IF \E s \in Sessions : DOMAIN pendingPermissions[s] # {}
    THEN "deny"
    ELSE IF toolName # AskUserQuestion /\ permissionMode = "free"
    THEN IF ~isToolAllowed(toolName, allowedTools) THEN "deny" ELSE "allow"
    ELSE IF ~isToolAllowed(toolName, allowedTools) THEN "deny" ELSE "ask"

\* Lines 139-159 of createCanUseTool: what the callback does before it
\* would ask the user.
gateOutcome(toolName, permissionMode, allowedTools) ==
    IF toolName # AskUserQuestion /\ permissionMode = "free"
    THEN IF ~isToolAllowed(toolName, allowedTools) THEN "deny" ELSE "allow"
    ELSE IF ~isToolAllowed(toolName, allowedTools) THEN "deny" ELSE "ask"

-----------------------------------------------------------------------------
(* Permission results, promises, timers, the pending map *)

NoInput == "-"
Pending == [behavior |-> "pending", updatedInput |-> NoInput, message |-> "-"]
Allow(input) == [behavior |-> "allow", updatedInput |-> input, message |-> "-"]
Deny(message) == [behavior |-> "deny", updatedInput |-> NoInput, message |-> message]

NotAllowed == "Tool is not allowed by allowedTools restriction"
TimedOut == "Permission request timed out after 5 minutes"
SessionAborted == "Session aborted"
UserDenied == "User denied"

\* What a permission response may carry
Responses == {Allow("in1"), Deny(UserDenied)}

\* A deferred result that takes the last value given to it
PromiseResolveLastWins(promise, result) == result

\* The resolve function of a Promise: only the first call settles it
PromiseResolve(promise, result) ==
    IF promise.behavior = "pending" THEN result ELSE promise

clearTimeout(timer) == IF timer = "armed" THEN "cleared" ELSE timer

MapDeleteKeepsKey(map, key) == map

MapDelete(map, key) == [k \in (DOMAIN map) \ {key} |-> map[k]]
MapSet(map, key, value) ==
    [k \in (DOMAIN map) \cup {key} |-> IF k = key THEN value ELSE map[k]]
EmptyMap == [k \in {} |-> 0]

NoResolve == [by |-> "none", result |-> Pending]
Op(op, sid, r, id) == [op |-> op, sid |-> sid, run |-> r, id |-> id]

\* The first resolve call on a call's promise (history, for the properties)
noteFirst(call, by, result) ==
    IF call.first.by = "none" THEN [by |-> by, result |-> result] ELSE call.first

-----------------------------------------------------------------------------
(* The three resolvers createCanUseTool installs for one request.  Each   *)
(* takes the call (its promise and timer) and the session's pending map   *)
(* and gives both back as the callback leaves them.                       *)

\* The callback without its resolve
timeoutCallbackNoResolve(call, map) ==
    [call |-> [call EXCEPT !.timer = "fired"],
     map  |-> MapDelete(map, call.toolUseId)]

\* The callback without its pendingPermissions.delete
timeoutCallbackKeepsEntry(call, map) ==
    [call |-> [call EXCEPT !.timer = "fired",
                           !.promise = PromiseResolve(@, Deny(TimedOut)),
                           !.first = noteFirst(call, "timeout", Deny(TimedOut))],
     map  |-> map]

\* The callback emptying the table instead of deleting its own key
timeoutCallbackClearsMap(call, map) ==
    [call |-> [call EXCEPT !.timer = "fired",
                           !.promise = PromiseResolve(@, Deny(TimedOut)),
                           !.first = noteFirst(call, "timeout", Deny(TimedOut))],
     map  |-> EmptyMap]

\* Lines 167-171: the setTimeout callback
timeoutCallback(call, map) ==
    [call |-> [call EXCEPT !.timer = "fired",
                           !.promise = PromiseResolve(@, Deny(TimedOut)),
                           !.first = noteFirst(call, "timeout", Deny(TimedOut))],
     map  |-> MapDelete(map, call.toolUseId)]

\* The resolve function emptying the map instead of deleting its own key
entryResolveClearsMap(call, map, result) ==
    [call |-> [call EXCEPT !.timer = clearTimeout(@),
                           !.promise = PromiseResolve(@, result),
                           !.first = noteFirst(call, "response", result)],
     map  |-> EmptyMap]

\* The resolve function without its clearTimeout
entryResolveLeavesTimer(call, map, result) ==
    [call |-> [call EXCEPT !.promise = PromiseResolve(@, result),
                           !.first = noteFirst(call, "response", result)],
     map  |-> MapDelete(map, call.toolUseId)]

\* The resolve function handing on the behavior without the input
entryResolveDropsInput(call, map, result) ==
    [call |-> [call EXCEPT !.timer = clearTimeout(@),
                           !.promise = PromiseResolve(@, [result EXCEPT
                                                            !.updatedInput = NoInput]),
                           !.first = noteFirst(call, "response", result)],
     map  |-> MapDelete(map, call.toolUseId)]

\* Lines 177-181: the resolve function stored in the entry
entryResolve(call, map, result) ==
    [call |-> [call EXCEPT !.timer = clearTimeout(@),
                           !.promise = PromiseResolve(@, result),
                           !.first = noteFirst(call, "response", result)],
     map  |-> MapDelete(map, call.toolUseId)]

\* The listener resolving with allow
abortListenerAllows(call, map) ==
    [call |-> [call EXCEPT !.timer = clearTimeout(@),
                           !.promise = PromiseResolve(@, Allow(call.input)),
                           !.first = noteFirst(call, "abort", Allow(call.input))],
     map  |-> MapDelete(map, call.toolUseId)]

\* The listener without its pendingPermissions.delete
abortListenerKeepsEntry(call, map) ==
    [call |-> [call EXCEPT !.timer = clearTimeout(@),
                           !.promise = PromiseResolve(@, Deny(SessionAborted)),
                           !.first = noteFirst(call, "abort", Deny(SessionAborted))],
     map  |-> map]

\* Lines 185-189: the listener for the signal's abort event
abortListener(call, map) ==
    [call |-> [call EXCEPT !.timer = clearTimeout(@),
                           !.promise = PromiseResolve(@, Deny(SessionAborted)),
                           !.first = noteFirst(call, "abort", Deny(SessionAborted))],
     map  |-> MapDelete(map, call.toolUseId)]

\* A call that reached line 162 and so owns a timer, an entry and a listener
Asked(call) == call.toolUseId # 0

\* Dispatch of the abort event: every registered listener runs, in the
\* order of registration.
RECURSIVE dispatchAbort(_, _, _)
dispatchAbort(cs, map, k) ==
    IF k > Len(cs) THEN [calls |-> cs, map |-> map]
    ELSE IF Asked(cs[k])
         THEN LET after == abortListener(cs[k], map)
              IN  dispatchAbort([cs EXCEPT ![k] = after.call], after.map, k + 1)
         ELSE dispatchAbort(cs, map, k + 1)

-----------------------------------------------------------------------------
(* State *)

Modes == {"undefined", "free", "secure"}

\* session.allowedTools settings the model starts from:
\* none, and "READ, Grep"
Settings ==
    { Undefined,
      Text(READ \o Comma \o Space \o Grep) }

\* The tool invocations the engine makes
ToolCalls ==
    { [toolName |-> Read, input |-> "in1"],
      [toolName |-> Read, input |-> "in2"],
      [toolName |-> Bash, input |-> "in1"],
      [toolName |-> AskUserQuestion, input |-> "in2"] }

NoRun ==
    [session |-> "none", started |-> FALSE, permissionMode |-> "secure",
     allowedTools |-> Null, aborted |-> FALSE]

\* The state after construction: the sessions in live have a mode from
\* modes and an allowedTools setting from settings
InitOf(live, modes, settings) ==
    /\ session \in
         { f \in [Sessions -> [permissionMode : Modes,
                               allowedTools : settings \cup {Undefined}]] :
               /\ \A s \in live : f[s].permissionMode \in modes
               /\ \A s \in live : f[s].allowedTools \in settings
               /\ \A s \in Sessions \ live :
                      f[s] = [permissionMode |-> "undefined",
                              allowedTools |-> Undefined] }
    /\ pendingPermissions = [s \in Sessions |-> EmptyMap]
    /\ run = [r \in Runs |-> NoRun]
    /\ calls = [r \in Runs |-> <<>>]
    /\ events = [s \in Sessions |-> <<>>]
    /\ nextId = 1
    /\ lastOp = Op("init", "none", 0, 0)

InitWith(live, modes) == InitOf(live, modes, Settings)

-----------------------------------------------------------------------------
(* Operations *)

\* Lines 267-271: whether the engine is started with permissionMode
\* "bypassPermissions" and allowDangerouslySkipPermissions
bypassFlags(permissionMode) == permissionMode = "free"

\* A run that takes a missing mode for free
runClaudeDefaultsToFree(r, s) ==
    /\ ~run[r].started
    /\ run' = [run EXCEPT ![r] =
                 [session |-> s, started |-> TRUE,
                  permissionMode |-> IF session[s].permissionMode = "undefined"
                                     THEN "free"
                                     ELSE session[s].permissionMode,
                  allowedTools |-> parseAllowedTools(session[s].allowedTools),
                  aborted |-> FALSE]]
    /\ lastOp' = Op("runClaude", s, r, 0)
    /\ UNCHANGED <<session, pendingPermissions, calls, events, nextId>>

\* runClaude, lines 194-200 and 226-232: the run captures the mode and
\* the parsed allow-list and owns a fresh AbortController.
runClaude(r, s) ==
    /\ ~run[r].started
    /\ run' = [run EXCEPT ![r] =
                 [session |-> s, started |-> TRUE,
                  permissionMode |-> IF session[s].permissionMode = "undefined"
                                     THEN "secure"
                                     ELSE session[s].permissionMode,
                  allowedTools |-> parseAllowedTools(session[s].allowedTools),
                  aborted |-> FALSE]]
    /\ lastOp' = Op("runClaude", s, r, 0)
    /\ UNCHANGED <<session, pendingPermissions, calls, events, nextId>>

\* An identifier source that returns the same value every time
randomUUIDRepeats(issued) == 1

\* crypto.randomUUID() (line 162): an identifier no earlier call of it
\* returned; issued is the count of the identifiers returned so far plus one
randomUUID(issued) == issued

\* sendPermissionRequest, lines 219-224
sendPermissionRequest(log, toolUseId, toolName, input) ==
    Append(log, [type |-> "permission.request", toolUseId |-> toolUseId,
                 toolName |-> toolName, input |-> input])

\* The result of a call the gate settles on its own (lines 145-150, 155-158)
settledCall(toolName, input, result) ==
    [toolName |-> toolName, input |-> input, toolUseId |-> 0,
     promise |-> result, timer |-> "none",
     first |-> [by |-> "gate", result |-> result]]

\* The engine invokes the callback createCanUseTool returned (lines 138-191)
canUseTool(r, toolName, input) ==
    LET s == run[r].session
        outcome == gateOutcome(toolName, run[r].permissionMode, run[r].allowedTools)
    IN  /\ run[r].started
        /\ Len(calls[r]) < MaxCalls
        /\ IF outcome = "deny"
           THEN /\ calls' = [calls EXCEPT ![r] =
                               Append(@, settledCall(toolName, input, Deny(NotAllowed)))]
                /\ lastOp' = Op("canUseTool", s, r, 0)
                /\ UNCHANGED <<pendingPermissions, events, nextId>>
           ELSE IF outcome = "allow"
           THEN /\ calls' = [calls EXCEPT ![r] =
                               Append(@, settledCall(toolName, input, Allow(input)))]
                /\ lastOp' = Op("canUseTool", s, r, 0)
                /\ UNCHANGED <<pendingPermissions, events, nextId>>
           ELSE LET toolUseId == randomUUID(nextId)
                IN  /\ nextId' = nextId + 1
                    /\ events' = [events EXCEPT ![s] =
                                    sendPermissionRequest(@, toolUseId, toolName, input)]
                    /\ calls' = [calls EXCEPT ![r] =
                                   Append(@, [toolName |-> toolName, input |-> input,
                                              toolUseId |-> toolUseId,
                                              promise |-> Pending, timer |-> "armed",
                                              first |-> NoResolve])]
                    /\ pendingPermissions' = [pendingPermissions EXCEPT ![s] =
                            MapSet(@, toolUseId,
                                   [toolUseId |-> toolUseId, toolName |-> toolName,
                                    input |-> input, run |-> r,
                                    call |-> Len(calls[r]) + 1])]
                    /\ lastOp' = Op("canUseTool", s, r, toolUseId)
        /\ UNCHANGED <<session, run>>

\* The timer of call k of run r expires
timeout(r, k) ==
    LET s == run[r].session
        after == timeoutCallback(calls[r][k], pendingPermissions[s])
    IN  /\ k \in DOMAIN calls[r]
        /\ calls[r][k].timer = "armed"
        /\ calls' = [calls EXCEPT ![r][k] = after.call]
        /\ pendingPermissions' = [pendingPermissions EXCEPT ![s] = after.map]
        /\ lastOp' = Op("timeout", s, r, calls[r][k].toolUseId)
        /\ UNCHANGED <<session, run, events, nextId>>

\* Somebody who holds the entry of call k of run r calls its resolve
resolveEntry(r, k, result) ==
    LET s == run[r].session
        after == entryResolve(calls[r][k], pendingPermissions[s], result)
    IN  /\ k \in DOMAIN calls[r]
        /\ Asked(calls[r][k])
        /\ calls' = [calls EXCEPT ![r][k] = after.call]
        /\ pendingPermissions' = [pendingPermissions EXCEPT ![s] = after.map]
        /\ lastOp' = Op("resolve", s, r, calls[r][k].toolUseId)
        /\ UNCHANGED <<session, run, events, nextId>>

\* A permission response (sessionId, toolUseId, result) arrives: the entry
\* is looked up and, when present, its resolve is called.
permissionResponse(s, toolUseId, result) ==
    /\ lastOp' = Op(IF toolUseId \in DOMAIN pendingPermissions[s]
                    THEN "response" ELSE "response.miss", s, 0, toolUseId)
    /\ IF toolUseId \in DOMAIN pendingPermissions[s]
       THEN LET entry == pendingPermissions[s][toolUseId]
                after == entryResolve(calls[entry.run][entry.call],
                                      pendingPermissions[s], result)
            IN  /\ calls' = [calls EXCEPT ![entry.run][entry.call] = after.call]
                /\ pendingPermissions' = [pendingPermissions EXCEPT ![s] = after.map]
       ELSE UNCHANGED <<calls, pendingPermissions>>
    /\ UNCHANGED <<session, run, events, nextId>>

\* An abort that dispatches the abort event every time it is called
abortDispatchesAgain(r) ==
    LET s == run[r].session
        after == dispatchAbort(calls[r], pendingPermissions[s], 1)
    IN  /\ run[r].started
        /\ lastOp' = Op(IF run[r].aborted THEN "abort.again" ELSE "abort", s, r, 0)
        /\ run' = [run EXCEPT ![r].aborted = TRUE]
        /\ calls' = [calls EXCEPT ![r] = after.calls]
        /\ pendingPermissions' = [pendingPermissions EXCEPT ![s] = after.map]
        /\ UNCHANGED <<session, events, nextId>>

\* One abort signal shared by the runs of all sessions
abortSharedSignal(r) ==
    LET hit == {q \in Runs : run[q].started /\ ~run[q].aborted}
        runOf(o) == CHOOSE q \in hit : run[q].session = o
        after(q) == dispatchAbort(calls[q], pendingPermissions[run[q].session], 1)
    IN  /\ run[r].started
        /\ lastOp' = Op(IF run[r].aborted THEN "abort.again" ELSE "abort",
                        run[r].session, r, 0)
        /\ run' = [q \in Runs |-> IF q \in hit
                                  THEN [run[q] EXCEPT !.aborted = TRUE] ELSE run[q]]
        /\ calls' = [q \in Runs |-> IF q \in hit THEN after(q).calls ELSE calls[q]]
        /\ pendingPermissions' =
              [o \in Sessions |-> IF \E q \in hit : run[q].session = o
                                  THEN after(runOf(o)).map
                                  ELSE pendingPermissions[o]]
        /\ UNCHANGED <<session, events, nextId>>

\* RunnerHandle.abort, lines 318-320: abortController.abort() dispatches
\* the abort event the first time it is called and does nothing afterwards.
abort(r) ==
    LET s == run[r].session
        after == dispatchAbort(calls[r], pendingPermissions[s], 1)
    IN  /\ run[r].started
        /\ lastOp' = Op(IF run[r].aborted THEN "abort.again" ELSE "abort", s, r, 0)
        /\ IF run[r].aborted
           THEN UNCHANGED <<run, calls, pendingPermissions>>
           ELSE /\ run' = [run EXCEPT ![r].aborted = TRUE]
                /\ calls' = [calls EXCEPT ![r] = after.calls]
                /\ pendingPermissions' = [pendingPermissions EXCEPT ![s] = after.map]
        /\ UNCHANGED <<session, events, nextId>>

-----------------------------------------------------------------------------
(* The stream loop of runClaude, lines 235-316 *)

NoError == [name |-> "none", message |-> "none"]
NoStream == [pc |-> "idle", produced |-> <<>>, abortedAt |-> -1, thrown |-> NoError]
NotHanding == [run |-> 0, toolUseId |-> 0, toolName |-> <<>>, input |-> NoInput]

InitStream ==
    /\ status = [s \in Sessions |-> "idle"]
    /\ claudeSessionId = [s \in Sessions |-> "none"]
    /\ stream = [r \in Runs |-> NoStream]
    /\ handing = NotHanding

\* The events the engine's stream yields (SDKMessage): what the loop looks
\* at is type, subtype and session_id
SystemInit == [type |-> "system", subtype |-> "init", session_id |-> "sdk1"]
Assistant == [type |-> "assistant", subtype |-> "none", session_id |-> "sdk1"]
ResultSuccess == [type |-> "result", subtype |-> "success", session_id |-> "sdk1"]
ResultError ==
    [type |-> "result", subtype |-> "error_during_execution", session_id |-> "sdk1"]
SystemInitNoId == [type |-> "system", subtype |-> "init", session_id |-> ""]
Messages == {SystemInit, SystemInitNoId, Assistant, ResultSuccess, ResultError}

\* What the stream can throw: the error of a cancelled query and any other
AbortError == [name |-> "AbortError", message |-> "aborted"]
EngineError == [name |-> "Error", message |-> "exited with code 1"]
Errors == {AbortError, EngineError}

\* String(error), line 313
String(error) == <<error.name, ": ", error.message>>
NoDetail == <<>>

\* sendMessage forwarding something else than it was given
sendMessageRewrites(log, s, message) ==
    Append(log, [type |-> "stream.message", sessionId |-> s, message |-> Assistant])

\* sendMessage, lines 212-217
sendMessage(log, s, message) ==
    Append(log, [type |-> "stream.message", sessionId |-> s, message |-> message])

\* onEvent with a session.status event, lines 291-294, 301-304, 311-314
sendStatus(log, s, st, detail) ==
    Append(log, [type |-> "session.status", sessionId |-> s,
                 status |-> st, error |-> detail])

\* Every result reported as completed
resultStatusAlwaysCompleted(subtype) == "completed"

\* Line 290: the status a result event is reported with
resultStatus(subtype) == IF subtype = "success" THEN "completed" ELSE "error"

\* onSessionUpdate, line 282; the call is logged with the calls of onEvent
sendSessionUpdate(log, sdkSessionId) ==
    Append(log, [type |-> "session.update", claudeSessionId |-> sdkSessionId])

\* A test that takes every event for the init event
IsInitAnyEvent(message) == TRUE

\* Line 278: the system init event
IsInit(message) == message.type = "system" /\ message.subtype = "init"

\* The body of the loop, lines 277-296, as what it hands to the callbacks
loopBody(log, s, message) ==
    LET captured == IF IsInit(message) /\ message.session_id # ""
                    THEN sendSessionUpdate(log, message.session_id)
                    ELSE log
        forwarded == sendMessage(captured, s, message)
    IN  IF message.type = "result"
        THEN sendStatus(forwarded, s, resultStatus(message.subtype), NoDetail)
        ELSE forwarded

\* The caller marks the session running and calls runClaude, whose loop
\* starts to read the stream (lines 235-276)
startRun(r, s) ==
    /\ runClaude(r, s)
    /\ status' = [status EXCEPT ![s] = "running"]
    /\ stream' = [stream EXCEPT ![r].pc = "running"]
    /\ UNCHANGED <<claudeSessionId, handing, mcpVars>>

\* One iteration of the loop, lines 276-297, for the event the stream yields
onMessage(r, message) ==
    LET s == run[r].session
    IN  /\ stream[r].pc = "running"
        /\ Len(stream[r].produced) < MaxMessages
        /\ claudeSessionId' =
              IF IsInit(message) /\ message.session_id # ""
              THEN [claudeSessionId EXCEPT ![s] = message.session_id]
              ELSE claudeSessionId
        /\ events' = [events EXCEPT ![s] = loopBody(@, s, message)]
        /\ stream' = [stream EXCEPT ![r].produced = Append(@, message)]
        /\ lastOp' = Op("message", s, r, 0)
        /\ UNCHANGED <<session, pendingPermissions, run, calls, nextId,
                       status, handing, mcpVars>>

\* Exhaustion that reports completed whatever session.status is
streamEndsAlwaysCompletes(r) ==
    LET s == run[r].session
    IN  /\ stream[r].pc = "running"
        /\ events' = [events EXCEPT ![s] = sendStatus(@, s, "completed", NoDetail)]
        /\ stream' = [stream EXCEPT ![r].pc = "done"]
        /\ lastOp' = Op("end", s, r, 0)
        /\ UNCHANGED <<session, pendingPermissions, run, calls, nextId,
                       status, claudeSessionId, handing, mcpVars>>

\* Exhaustion that sets session.status itself
streamEndsAssignsStatus(r) ==
    LET s == run[r].session
    IN  /\ stream[r].pc = "running"
        /\ events' = [events EXCEPT ![s] =
                        IF status[s] = "running"
                        THEN sendStatus(@, s, "completed", NoDetail)
                        ELSE @]
        /\ status' = [status EXCEPT ![s] = "completed"]
        /\ stream' = [stream EXCEPT ![r].pc = "done"]
        /\ lastOp' = Op("end", s, r, 0)
        /\ UNCHANGED <<session, pendingPermissions, run, calls, nextId,
                       claudeSessionId, handing, mcpVars>>

\* The stream is exhausted, lines 299-305
streamEnds(r) ==
    LET s == run[r].session
    IN  /\ stream[r].pc = "running"
        /\ events' = [events EXCEPT ![s] =
                        IF status[s] = "running"
                        THEN sendStatus(@, s, "completed", NoDetail)
                        ELSE @]
        /\ stream' = [stream EXCEPT ![r].pc = "done"]
        /\ lastOp' = Op("end", s, r, 0)
        /\ UNCHANGED <<session, pendingPermissions, run, calls, nextId,
                       status, claudeSessionId, handing, mcpVars>>

\* A catch block that swallows every error
streamThrowsSilently(r, error) ==
    LET s == run[r].session
    IN  /\ stream[r].pc = "running"
        /\ error = AbortError => run[r].aborted
        /\ stream' = [stream EXCEPT ![r].pc = "done", ![r].thrown = error]
        /\ lastOp' = Op("throw", s, r, 0)
        /\ UNCHANGED <<session, pendingPermissions, run, calls, events, nextId,
                       status, claudeSessionId, handing, mcpVars>>

\* The stream throws, lines 306-315; the error of a cancelled query is
\* thrown only by a query that was cancelled
streamThrows(r, error) ==
    LET s == run[r].session
    IN  /\ stream[r].pc = "running"
        /\ error = AbortError => run[r].aborted
        /\ events' = [events EXCEPT ![s] =
                        IF error.name = "AbortError"
                        THEN @
                        ELSE sendStatus(@, s, "error", String(error))]
        /\ stream' = [stream EXCEPT ![r].pc = "done", ![r].thrown = error]
        /\ lastOp' = Op("throw", s, r, 0)
        /\ UNCHANGED <<session, pendingPermissions, run, calls, nextId,
                       status, claudeSessionId, handing, mcpVars>>

\* RunnerHandle.abort with the place in the session's events where the
\* run was aborted
abortRun(r) ==
    /\ abort(r)
    /\ stream' = [stream EXCEPT ![r].abortedAt =
                     IF stream[r].pc = "running" /\ ~run[r].aborted
                     THEN Len(events[run[r].session])
                     ELSE @]
    /\ UNCHANGED <<status, claudeSessionId, handing, mcpVars>>

\* The session.status events of a log
StatusEvents(log) == {i \in DOMAIN log : log[i].type = "session.status"}

\* The caller records the status of the last session.status event
updateSession(s) ==
    /\ StatusEvents(events[s]) # {}
    /\ status[s] # events[s][SetMax(StatusEvents(events[s]))].status
    /\ status' = [status EXCEPT ![s] =
                     events[s][SetMax(StatusEvents(events[s]))].status]
    /\ lastOp' = Op("updateSession", s, 0, 0)
    /\ UNCHANGED <<session, pendingPermissions, run, calls, events, nextId,
                   claudeSessionId, stream, handing, mcpVars>>

-----------------------------------------------------------------------------
(* MCP manager (mcp-manager.ts): the connection to the Desktop Commander   *)
(* server.  initialize() is an async method: another callback can run at   *)
(* each of its awaits, so it is one action per stretch between two awaits. *)
(* Clients are numbered by the initialize() call that created them and     *)
(* server processes by the order spawn() started them; 0 is null.          *)

\* MCPManagerOptions: every field is optional, given names the fields an
\* object carries
Options(given, serverPath, serverArgs, enabled, allowedTools) ==
    [given |-> given, serverPath |-> serverPath, serverArgs |-> serverArgs,
     enabled |-> enabled, allowedTools |-> allowedTools]

NoOptions == Options({}, "", <<>>, TRUE, <<>>)
Disabled == Options({"enabled"}, "", <<>>, FALSE, <<>>)
OtherServer ==
    Options({"serverPath", "serverArgs", "enabled"},
            "/path/to/DesktopCommanderMCP/dist/index.js", <<"--verbose">>, TRUE, <<>>)
OnlyReadFile == Options({"allowedTools"}, "", <<>>, TRUE, <<"read_file">>)
OptionsGiven == {NoOptions, Disabled, OtherServer, OnlyReadFile}

\* The tools a server may list
ServerTools == {"read_file", "write_file"}

includes(array, item) == \E i \in DOMAIN array : array[i] = item

\* Lines 198-204: the defaults, overridden by the fields given
mergeOptions(options) ==
    [serverPath |-> IF "serverPath" \in options.given
                    THEN options.serverPath ELSE "desktop-commander",
     serverArgs |-> IF "serverArgs" \in options.given
                    THEN options.serverArgs ELSE <<"--no-onboarding">>,
     enabled |-> IF "enabled" \in options.given THEN options.enabled ELSE TRUE,
     allowedTools |-> IF "allowedTools" \in options.given
                      THEN options.allowedTools ELSE <<>>]

\* Lines 191-205: a new MCPManager. Objects are told apart by the number of
\* initialize() calls made before their construction
constructor(options) ==
    [constructed |-> TRUE, singleton |-> FALSE, id |-> Len(initCalls),
     options |-> mergeOptions(options),
     client |-> 0, serverProcess |-> 0, tools |-> {}, isInitialized |-> FALSE]

\* Line 378: no manager yet
NoManager == [constructor(NoOptions) EXCEPT !.constructed = FALSE, !.id = 0]

InitManager ==
    /\ initCalls = <<>>
    /\ processes = <<>>
    /\ manager = NoManager

\* Lines 372-374
isReady(m) == m.isInitialized /\ m.client # 0

\* Lines 301-303
hasTool(m, toolName) == toolName \in m.tools

\* Line 352: cleanup() closes the client the manager holds
close(m, cs) ==
    IF m.client # 0 THEN [cs EXCEPT ![m.client].closed = TRUE] ELSE cs

\* Lines 356-359: cleanup() signals the process the manager holds; a process
\* that is gone receives no signal
kill(m, ps) ==
    IF m.serverProcess # 0 /\ ~ps[m.serverProcess].killed /\ ~ps[m.serverProcess].gone
    THEN [ps EXCEPT ![m.serverProcess].killed = TRUE]
    ELSE ps

cleanupLeavesClient(m) ==
    [m EXCEPT !.serverProcess = 0, !.tools = {}, !.isInitialized = FALSE]

\* Lines 350-367: the fields of the manager after cleanup()
cleanup(m) ==
    [m EXCEPT !.client = 0, !.serverProcess = 0, !.tools = {}, !.isInitialized = FALSE]

\* What an MCP action leaves alone
UnchangedByManager ==
    UNCHANGED <<session, pendingPermissions, run, calls, events, nextId, streamVars>>

\* Whether the client of call c can still be answered: cleanup() has not
\* closed it and the server process it talks to has emitted no 'error' or 'exit'
connected(c) ==
    /\ ~initCalls[c].closed
    /\ ~processes[initCalls[c].process].gone

\* Lines 259-263: the catch block of initialize(), for call c
catchBlock(c, m, cs, ps, failed) ==
    /\ manager' = cleanup(m)
    /\ processes' = kill(m, ps)
    /\ initCalls' = [close(m, cs) EXCEPT ![c].pc = "returned",
                                         ![c].returned = "false",
                                         ![c].failed = failed]

\* Lines 210-248: initialize() on manager m up to its first await. passed is
\* the argument of the exported function that made the call, spawns is
\* whether spawn() returns a process or throws
initialize(m, passed, via, spawns) ==
    LET c == Len(initCalls) + 1
        p == Len(processes) + 1
        call == [pc |-> "connect", returned |-> "pending", passed |-> passed,
                 via |-> via, process |-> 0, closed |-> FALSE, listing |-> 0,
                 listed |-> {}, failed |-> "none"]
    IN  /\ Len(initCalls) < MaxInits
        /\ IF ~m.options.enabled
           THEN /\ manager' = m
                /\ processes' = processes
                /\ initCalls' = Append(initCalls, [call EXCEPT !.pc = "returned",
                                                               !.returned = "false"])
           ELSE IF ~spawns
           THEN catchBlock(c, m, Append(initCalls, call), processes, "spawn")
           ELSE /\ manager' = [m EXCEPT !.serverProcess = p, !.client = c]
                /\ processes' = Append(processes,
                                  [command |-> m.options.serverPath,
                                   args |-> m.options.serverArgs,
                                   manager |-> m.id,
                                   killed |-> FALSE, gone |-> FALSE])
                /\ initCalls' = Append(initCalls, [call EXCEPT !.process = p])
        /\ lastOp' = Op("initialize", "none", 0, c)
        /\ UnchangedByManager

\* new MCPManager(options), by a caller that keeps the object itself
newMCPManager(options) ==
    /\ ~manager.constructed
    /\ manager' = constructor(options)
    /\ lastOp' = Op("new", "none", 0, 0)
    /\ UNCHANGED <<processes, initCalls>>
    /\ UnchangedByManager

\* Lines 380-385: the singleton, made with no options
getMCPManager ==
    IF manager.constructed
    THEN manager
    ELSE [constructor(NoOptions) EXCEPT !.singleton = TRUE]

\* manager.initialize(), called on an object the caller constructed
initializeManager(spawns) ==
    /\ manager.constructed
    /\ ~manager.singleton
    /\ initialize(manager, NoOptions, "initialize", spawns)

\* Lines 387-390
initializeMCPManager(options, spawns) ==
    /\ manager.constructed => manager.singleton
    /\ initialize(getMCPManager, options, "initializeMCPManager", spawns)

\* Line 248, the connect() promise rejects: the catch block
connectRejects(c) ==
    /\ c \in DOMAIN initCalls
    /\ initCalls[c].pc = "connect"
    /\ catchBlock(c, manager, initCalls, processes, "connect")
    /\ lastOp' = Op("connect.rejected", "none", 0, c)
    /\ UnchangedByManager

\* Lines 248-275, the connect() promise resolves: loadTools() throws when the
\* manager holds no client (and initialize() catches it), else it asks the
\* client the manager holds for the tool list, which rejects at once when
\* that client, made by a later call, is not connected yet. A client that is
\* closed or whose server is gone settles what is asked of it with an error
connectResolves(c) ==
    /\ c \in DOMAIN initCalls
    /\ initCalls[c].pc = "connect"
    /\ connected(c)
    /\ IF manager.client = 0
       THEN catchBlock(c, manager, initCalls, processes, "loadTools")
       ELSE IF manager.client # c /\ initCalls[manager.client].pc = "connect"
       THEN catchBlock(c, manager, initCalls, processes, "listTools")
       ELSE /\ initCalls' = [initCalls EXCEPT ![c].pc = "listTools",
                                              ![c].listing = manager.client]
            /\ UNCHANGED <<manager, processes>>
    /\ lastOp' = Op("connect.resolved", "none", 0, c)
    /\ UnchangedByManager

\* Lines 278-282: whether loadTools() registers a tool
registers(m, toolName) ==
    Len(m.options.allowedTools) > 0 => includes(m.options.allowedTools, toolName)

\* Lines 275-291 and 255-257, listTools() resolves with the tools listed:
\* those not filtered out are registered and initialize() returns true
listToolsResolves(c, listed) ==
    /\ c \in DOMAIN initCalls
    /\ initCalls[c].pc = "listTools"
    /\ connected(initCalls[c].listing)
    /\ manager' = [manager EXCEPT
                      !.tools = @ \cup {t \in listed : registers(manager, t)},
                      !.isInitialized = TRUE]
    /\ initCalls' = [initCalls EXCEPT ![c].pc = "returned", ![c].returned = "true",
                                      ![c].listed = listed]
    /\ lastOp' = Op("listTools.resolved", "none", 0, c)
    /\ UNCHANGED processes
    /\ UnchangedByManager

\* Lines 292-295 and 259-263, listTools() rejects: loadTools() rethrows and
\* initialize() catches
listToolsRejects(c) ==
    /\ c \in DOMAIN initCalls
    /\ initCalls[c].pc = "listTools"
    /\ catchBlock(c, manager, initCalls, processes, "listTools")
    /\ lastOp' = Op("listTools.rejected", "none", 0, c)
    /\ UnchangedByManager

\* Lines 230-238: process p emits 'error' or 'exit' and the handler calls
\* cleanup() on the manager that spawned it
processEvent(p) ==
    LET gone == [processes EXCEPT ![p].gone = TRUE]
    IN  /\ p \in DOMAIN processes
        /\ ~processes[p].gone
        /\ IF manager.constructed /\ processes[p].manager = manager.id
           THEN /\ manager' = cleanup(manager)
                /\ processes' = kill(manager, gone)
                /\ initCalls' = close(manager, initCalls)
           ELSE /\ processes' = gone
                /\ UNCHANGED <<manager, initCalls>>
        /\ lastOp' = Op("process.event", "none", 0, p)
        /\ UnchangedByManager

\* Lines 315-330: executeTool(toolName, args) throws, or calls callTool on
\* the client the manager holds
executeTool(toolName) ==
    /\ manager.constructed
    /\ lastOp' = IF ~manager.isInitialized \/ manager.client = 0
                 THEN Op("executeTool.notInitialized", toolName, 0, 0)
                 ELSE IF ~hasTool(manager, toolName)
                 THEN Op("executeTool.notFound", toolName, 0, 0)
                 ELSE Op("callTool", toolName, 0, manager.client)
    /\ UNCHANGED mcpVars
    /\ UnchangedByManager

\* Lines 350-367: a caller that holds the manager calls cleanup()
callCleanup ==
    /\ manager.constructed
    /\ manager' = cleanup(manager)
    /\ processes' = kill(manager, processes)
    /\ initCalls' = close(manager, initCalls)
    /\ lastOp' = Op("cleanup", "none", 0, 0)
    /\ UnchangedByManager

\* Lines 392-397, once every initialize() call has returned, so that the
\* object let go has no call in flight
cleanupMCPManager ==
    /\ manager.constructed
    /\ manager.singleton
    /\ \A c \in DOMAIN initCalls : initCalls[c].pc = "returned"
    /\ manager' = NoManager
    /\ processes' = kill(manager, processes)
    /\ initCalls' = close(manager, initCalls)
    /\ lastOp' = Op("cleanupMCPManager", "none", 0, 0)
    /\ UnchangedByManager

-----------------------------------------------------------------------------
(* One session, one run: the permission broker on its own *)

Init == InitWith({"s1"}, {"free", "secure"}) /\ InitStream /\ InitManager

Next ==
    \/ runClaude(1, "s1") /\ UNCHANGED <<streamVars, mcpVars>>
    \/ \E c \in ToolCalls : canUseTool(1, c.toolName, c.input) /\ UNCHANGED <<streamVars, mcpVars>>
    \/ \E k \in 1..MaxCalls : timeout(1, k) /\ UNCHANGED <<streamVars, mcpVars>>
    \/ \E k \in 1..MaxCalls, result \in Responses :
           resolveEntry(1, k, result) /\ UNCHANGED <<streamVars, mcpVars>>
    \/ \E toolUseId \in Ids, result \in Responses :
           permissionResponse("s1", toolUseId, result) /\ UNCHANGED <<streamVars, mcpVars>>
    \/ abort(1) /\ UNCHANGED <<streamVars, mcpVars>>

Spec == Init /\ [][Next]_vars

\* The broker with timers that fire: a setTimeout callback that is armed
\* (line 167, PERMISSION_TIMEOUT_MS of line 14) and not cleared is run
NextTimers ==
    \/ runClaude(1, "s1") /\ UNCHANGED <<streamVars, mcpVars>>
    \/ \E c \in ToolCalls : canUseTool(1, c.toolName, c.input) /\ UNCHANGED <<streamVars, mcpVars>>
    \/ \E k \in 1..MaxCalls : timeout(1, k) /\ UNCHANGED <<streamVars, mcpVars>>
    \/ \E toolUseId \in DOMAIN pendingPermissions["s1"], result \in Responses :
           permissionResponse("s1", toolUseId, result) /\ UNCHANGED <<streamVars, mcpVars>>
    \/ abort(1) /\ UNCHANGED <<streamVars, mcpVars>>

SpecTimers ==
    Init /\ [][NextTimers]_vars
         /\ \A k \in 1..MaxCalls : WF_vars(timeout(1, k) /\ UNCHANGED <<streamVars, mcpVars>>)

-----------------------------------------------------------------------------
(* The runs and calls of a state *)

Started == {r \in Runs : run[r].started}
AskedCalls(r) == {k \in DOMAIN calls[r] : Asked(calls[r][k])}
Settled(call) == call.promise.behavior # "pending"
Table(r) == pendingPermissions[run[r].session]

\* The calls whose request is still pending, with their timers
Suspended(r) == {k \in AskedCalls(r) : ~Settled(calls[r][k])}

-----------------------------------------------------------------------------
(* One session, one run: the stream loop of an engine that asks for no     *)
(* tool call                                                               *)

\* A secure session restricted to Read and Grep
InitRunner ==
    /\ InitWith({"s1"}, {"secure"})
    /\ session["s1"].allowedTools # Undefined
    /\ InitStream
    /\ InitManager

NextLoop ==
    \/ startRun(1, "s1")
    \/ \E message \in Messages : onMessage(1, message)
    \/ streamEnds(1)
    \/ \E error \in Errors : streamThrows(1, error)
    \/ abortRun(1)
    \/ updateSession("s1")

SpecLoop == InitRunner /\ [][NextLoop]_vars

-----------------------------------------------------------------------------
(* One session, one run: the stream loop together with the broker.  The   *)
(* engine asks for one tool call at a time and yields nothing while the    *)
(* call is suspended; the caller leaves session.status as it is.           *)

StreamCalls == {c \in ToolCalls : c.input = "in1"}

\* The engine goes on with the stream only when no tool call is waiting
\* for its decision
engineReady(r) == Suspended(r) = {}
RunnerMessages == {Assistant, ResultSuccess}

NextRunner ==
    \/ startRun(1, "s1")
    \/ \E message \in RunnerMessages : engineReady(1) /\ onMessage(1, message)
    \/ engineReady(1) /\ streamEnds(1)
    \/ \E error \in Errors : streamThrows(1, error)
    \/ abortRun(1)
    \/ \E c \in StreamCalls :
           /\ stream[1].pc = "running"
           /\ engineReady(1)
           /\ canUseTool(1, c.toolName, c.input)
           /\ UNCHANGED <<streamVars, mcpVars>>
    \/ \E k \in 1..MaxCalls : timeout(1, k) /\ UNCHANGED <<streamVars, mcpVars>>
    \/ \E toolUseId \in DOMAIN pendingPermissions["s1"], result \in Responses :
           permissionResponse("s1", toolUseId, result) /\ UNCHANGED <<streamVars, mcpVars>>

SpecRunner == InitRunner /\ [][NextRunner]_vars

-----------------------------------------------------------------------------
(* The end-to-end scenario: a secure session without allow-list whose      *)
(* engine asks for Read, is answered or times out, and goes on to the end  *)
(* of its stream without failure or abort.                                 *)

ReadCalls == {c \in ToolCalls : c.toolName = Read}

InitScenario ==
    /\ InitWith({"s1"}, {"secure"})
    /\ session["s1"].allowedTools = Undefined
    /\ InitStream
    /\ InitManager

NextScenario ==
    \/ startRun(1, "s1")
    \/ \E message \in RunnerMessages : engineReady(1) /\ onMessage(1, message)
    \/ engineReady(1) /\ streamEnds(1)
    \/ \E c \in ReadCalls :
           /\ stream[1].pc = "running"
           /\ engineReady(1)
           /\ canUseTool(1, c.toolName, c.input)
           /\ UNCHANGED <<streamVars, mcpVars>>
    \/ \E k \in 1..MaxCalls : timeout(1, k) /\ UNCHANGED <<streamVars, mcpVars>>
    \/ \E toolUseId \in DOMAIN pendingPermissions["s1"], result \in Responses :
           permissionResponse("s1", toolUseId, result) /\ UNCHANGED <<streamVars, mcpVars>>

SpecScenario == InitScenario /\ [][NextScenario]_vars

-----------------------------------------------------------------------------
(* Two sessions, each with its own run, at the same time, with MaxCalls    *)
(* tool calls between them.  A response may name, for either session, any  *)
(* identifier that is pending anywhere.                                    *)

SessionOf(r) == IF r = 1 THEN "s1" ELSE "s2"

InitTwo ==
    /\ InitWith(Sessions, {"secure"})
    /\ \A s \in Sessions : session[s].allowedTools = Undefined
    /\ InitStream
    /\ InitManager

NextTwo ==
    \/ \E r \in Runs : startRun(r, SessionOf(r))
    \/ \E r \in Runs : streamEnds(r)
    \/ \E r \in Runs :
           /\ stream[r].pc = "running"
           /\ nextId <= MaxCalls
           /\ canUseTool(r, Read, "in1")
           /\ UNCHANGED <<streamVars, mcpVars>>
    \/ \E r \in Runs, k \in 1..MaxCalls : timeout(r, k) /\ UNCHANGED <<streamVars, mcpVars>>
    \/ \E s \in Sessions, o \in Sessions :
           \E toolUseId \in DOMAIN pendingPermissions[o], result \in Responses :
               permissionResponse(s, toolUseId, result) /\ UNCHANGED <<streamVars, mcpVars>>
    \/ \E r \in Runs : abortRun(r)

SpecTwo == InitTwo /\ [][NextTwo]_vars

-----------------------------------------------------------------------------
(* One session for which runClaude is called twice, with MaxCalls tool     *)
(* calls between the two runs                                              *)

NextResume ==
    \/ \E r \in Runs : startRun(r, "s1")
    \/ \E r \in Runs : streamEnds(r)
    \/ \E r \in Runs :
           /\ stream[r].pc = "running"
           /\ nextId <= MaxCalls
           /\ canUseTool(r, Read, "in1")
           /\ UNCHANGED <<streamVars, mcpVars>>
    \/ \E r \in Runs, k \in 1..MaxCalls : timeout(r, k) /\ UNCHANGED <<streamVars, mcpVars>>
    \/ \E toolUseId \in DOMAIN pendingPermissions["s1"], result \in Responses :
           permissionResponse("s1", toolUseId, result) /\ UNCHANGED <<streamVars, mcpVars>>
    \/ \E r \in Runs : abortRun(r)

SpecResume == InitScenario /\ [][NextResume]_vars

-----------------------------------------------------------------------------
(* Sessions whose allowedTools setting names no tool: undefined, empty,    *)
(* and every string of commas and spaces up to MaxLen characters           *)

Blank == UNION {[1..n -> {Comma[1], Space[1]}] : n \in 0..MaxLen}
NoToolSettings == {Undefined} \cup {Text(s) : s \in Blank}

InitBlank == InitOf({"s1"}, {"free", "secure"}, NoToolSettings) /\ InitStream /\ InitManager

NextBlank ==
    \/ runClaude(1, "s1") /\ UNCHANGED <<streamVars, mcpVars>>
    \/ \E c \in ToolCalls : canUseTool(1, c.toolName, c.input) /\ UNCHANGED <<streamVars, mcpVars>>
    \/ \E toolUseId \in DOMAIN pendingPermissions["s1"], result \in Responses :
           permissionResponse("s1", toolUseId, result) /\ UNCHANGED <<streamVars, mcpVars>>

SpecBlank == InitBlank /\ [][NextBlank]_vars

-----------------------------------------------------------------------------
(* Two sessions of any mode and setting whose engines make MaxCalls tool   *)
(* calls between them                                                      *)

InitGate == InitWith(Sessions, {"free", "secure"}) /\ InitStream /\ InitManager

\* One invocation for each tool name
GateCalls == {c \in ToolCalls : c.toolName = Read => c.input = "in1"}

NextGate ==
    \/ \E r \in Runs : runClaude(r, SessionOf(r)) /\ UNCHANGED <<streamVars, mcpVars>>
    \/ \E r \in Runs, c \in GateCalls :
           /\ Len(calls[1]) + Len(calls[2]) < MaxCalls
           /\ canUseTool(r, c.toolName, c.input)
           /\ UNCHANGED <<streamVars, mcpVars>>
    \/ \E s \in Sessions :
           \E toolUseId \in DOMAIN pendingPermissions[s], result \in Responses :
               permissionResponse(s, toolUseId, result) /\ UNCHANGED <<streamVars, mcpVars>>

SpecGate == InitGate /\ [][NextGate]_vars

-----------------------------------------------------------------------------
(* canUseTool with the call of onEvent as a step of its own.  The handler  *)
(* runs inside sendPermissionRequest (line 163), before the promise, the   *)
(* timer and the entry exist (lines 165-182); what the handler does        *)
(* synchronously happens between requestPermission and suspendCall.        *)

\* Lines 138-163, for a call the gate does not settle: up to the moment
\* onEvent is called with the permission.request
requestPermission(r, toolName, input) ==
    LET s == run[r].session
        toolUseId == randomUUID(nextId)
    IN  /\ run[r].started
        /\ handing = NotHanding
        /\ Len(calls[r]) < MaxCalls
        /\ gateOutcome(toolName, run[r].permissionMode, run[r].allowedTools) = "ask"
        /\ nextId' = nextId + 1
        /\ events' = [events EXCEPT ![s] =
                        sendPermissionRequest(@, toolUseId, toolName, input)]
        /\ handing' = [run |-> r, toolUseId |-> toolUseId,
                       toolName |-> toolName, input |-> input]
        /\ lastOp' = Op("permission.request", s, r, toolUseId)
        /\ UNCHANGED <<session, pendingPermissions, run, calls,
                       status, claudeSessionId, stream, mcpVars>>

\* Lines 165-190, once onEvent has returned: the promise, the timer, the
\* entry and the abort listener
suspendCall ==
    LET r == handing.run
        s == run[r].session
    IN  /\ handing # NotHanding
        /\ calls' = [calls EXCEPT ![r] =
                       Append(@, [toolName |-> handing.toolName,
                                  input |-> handing.input,
                                  toolUseId |-> handing.toolUseId,
                                  promise |-> Pending, timer |-> "armed",
                                  first |-> NoResolve])]
        /\ pendingPermissions' = [pendingPermissions EXCEPT ![s] =
                MapSet(@, handing.toolUseId,
                       [toolUseId |-> handing.toolUseId, toolName |-> handing.toolName,
                        input |-> handing.input, run |-> r,
                        call |-> Len(calls[r]) + 1])]
        /\ handing' = NotHanding
        /\ lastOp' = Op("canUseTool", s, r, handing.toolUseId)
        /\ UNCHANGED <<session, run, events, nextId, status, claudeSessionId, stream, mcpVars>>

\* The event handler answers the request it is being called with
answerInHandler(result) ==
    /\ handing # NotHanding
    /\ permissionResponse(run[handing.run].session, handing.toolUseId, result)
    /\ UNCHANGED <<streamVars, mcpVars>>

NextHandler ==
    \/ handing = NotHanding /\ Next
    \/ \E c \in ToolCalls : requestPermission(1, c.toolName, c.input)
    \/ \E result \in Responses : answerInHandler(result)
    \/ suspendCall

SpecHandler == Init /\ [][NextHandler]_vars

-----------------------------------------------------------------------------
(* The MCP manager on its own: objects constructed with options or the     *)
(* singleton, initialize() calls that overlap, and the events of the       *)
(* server processes                                                        *)

NextManager ==
    \/ \E options \in OptionsGiven : newMCPManager(options)
    \/ \E spawns \in BOOLEAN : initializeManager(spawns)
    \/ \E c \in 1..MaxInits : connectRejects(c)
    \/ \E c \in 1..MaxInits : connectResolves(c)
    \/ \E c \in 1..MaxInits, listed \in SUBSET ServerTools :
           listToolsResolves(c, listed)
    \/ \E c \in 1..MaxInits : listToolsRejects(c)
    \/ \E p \in 1..MaxInits : processEvent(p)
    \/ callCleanup

SpecManager == InitScenario /\ [][NextManager]_vars

-----------------------------------------------------------------------------
(* The tools of a manager: what initialize() registers from the server's   *)
(* list, and executeTool                                                   *)

ToolOptions == {NoOptions, OnlyReadFile}

NextTools ==
    \/ \E options \in ToolOptions : newMCPManager(options)
    \/ initializeManager(TRUE)
    \/ \E c \in 1..MaxInits : connectResolves(c)
    \/ \E c \in 1..MaxInits, listed \in SUBSET ServerTools :
           listToolsResolves(c, listed)
    \/ \E c \in 1..MaxInits : listToolsRejects(c)
    \/ callCleanup
    \/ \E toolName \in ServerTools : executeTool(toolName)

SpecTools == InitScenario /\ [][NextTools]_vars

-----------------------------------------------------------------------------
(* The singleton: initializeMCPManager with the options a caller passes,   *)
(* and cleanupMCPManager                                                   *)

\* What callers pass to initializeMCPManager
OptionsPassed == {NoOptions, Disabled, OtherServer}

NextSingleton ==
    \/ \E options \in OptionsPassed, spawns \in BOOLEAN :
           initializeMCPManager(options, spawns)
    \/ \E c \in 1..MaxInits : connectRejects(c)
    \/ \E c \in 1..MaxInits : connectResolves(c)
    \/ \E c \in 1..MaxInits : listToolsResolves(c, ServerTools)
    \/ \E c \in 1..MaxInits : listToolsRejects(c)
    \/ \E p \in 1..MaxInits : processEvent(p)
    \/ cleanupMCPManager

SpecSingleton == InitScenario /\ [][NextSingleton]_vars

-----------------------------------------------------------------------------
(* One session, one run, with everything that writes a field of the        *)
(* session: the loop, which captures the resume token, the permission      *)
(* callback and its resolvers, and the caller, who applies the status      *)
(* events when it gets to them.                                            *)

FieldMessages == {SystemInit, ResultError}
FieldCalls == {c \in ToolCalls : c.toolName = Read /\ c.input = "in1"}

NextFields ==
    \/ startRun(1, "s1")
    \/ \E message \in FieldMessages : engineReady(1) /\ onMessage(1, message)
    \/ engineReady(1) /\ streamEnds(1)
    \/ streamThrows(1, EngineError)
    \/ abortRun(1)
    \/ updateSession("s1")
    \/ \E c \in FieldCalls :
           /\ stream[1].pc = "running"
           /\ engineReady(1)
           /\ canUseTool(1, c.toolName, c.input)
           /\ UNCHANGED <<streamVars, mcpVars>>
    \/ \E k \in 1..MaxCalls : timeout(1, k) /\ UNCHANGED <<streamVars, mcpVars>>
    \/ \E toolUseId \in DOMAIN pendingPermissions["s1"] :
           /\ permissionResponse("s1", toolUseId, Allow("in1"))
           /\ UNCHANGED <<streamVars, mcpVars>>

SpecFields == InitScenario /\ [][NextFields]_vars

-----------------------------------------------------------------------------
(* The broker for a session whose permission mode is not set, or is free   *)

InitDefault == InitWith({"s1"}, {"undefined", "free"}) /\ InitStream /\ InitManager

SpecDefault == InitDefault /\ [][Next]_vars

-----------------------------------------------------------------------------
(* Properties *)


\* Callbacks that resolve, or try to resolve, a request
ResolvingOps == {"timeout", "resolve", "response", "response.miss", "abort", "abort.again"}

\* C1: under every interleaving and repetition of response, timeout and
\* abort signal, a request delivers exactly one decision to its suspended
\* tool call: once a response for it, its timer or the abort event has
\* been handled a decision has been delivered, a delivered decision is
\* never replaced, and the request's entry is absent from
\* session.pendingPermissions in every state in which the decision has
\* been delivered.
C1_ExactlyOneDecision ==
    /\ [](\A r \in Started : \A k \in AskedCalls(r) :
            /\ calls[r][k].timer # "armed" => Settled(calls[r][k])
            /\ Settled(calls[r][k]) => calls[r][k].toolUseId \notin DOMAIN Table(r))
    /\ [][\A r \in Started : \A k \in AskedCalls(r) :
            /\ Settled(calls[r][k]) => calls'[r][k].promise = calls[r][k].promise
            /\ lastOp' = Op("abort", run[r].session, r, 0) => Settled(calls'[r][k])
            /\ lastOp' = Op("response", run[r].session, 0, calls[r][k].toolUseId)
                   => Settled(calls'[r][k])]_vars

\* C1 witness: a request answered by a response was then hit by abort()
C1_Witness ==
    \E r \in Started : \E k \in AskedCalls(r) :
        /\ calls[r][k].first.by = "response"
        /\ lastOp = Op("abort", run[r].session, r, 0)

\* C2: the decision delivered is the one carried by the first resolving
\* event (the response's result, deny "timed out" for the timer, deny
\* "Session aborted" for abort), and a resolving event for a request that
\* is already resolved changes neither that decision nor the pending table.
C2_FirstResolutionWins ==
    /\ [](\A r \in Started : \A k \in AskedCalls(r) :
            LET first == calls[r][k].first
            IN  first.by # "none" =>
                    /\ calls[r][k].promise = first.result
                    /\ first.by = "timeout" => first.result = Deny(TimedOut)
                    /\ first.by = "abort" => first.result = Deny(SessionAborted)
                    /\ first.by = "response" => first.result \in Responses)
    /\ [][\A r \in Started : \A k \in AskedCalls(r) :
            ( /\ Settled(calls[r][k])
              /\ lastOp'.op \in ResolvingOps
              /\ \A j \in DOMAIN calls[r] : j # k => calls'[r][j] = calls[r][j] )
            => /\ calls'[r][k].promise = calls[r][k].promise
               /\ pendingPermissions' = pendingPermissions]_vars

\* C2 witness: a request that timed out first was later named by a
\* holder of its entry
C2_Witness ==
    \E r \in Started : \E k \in AskedCalls(r) :
        /\ calls[r][k].first.by = "timeout"
        /\ lastOp.op = "resolve"
        /\ \A j \in AskedCalls(r) : Settled(calls[r][j])

\* The tool names of the allowedTools settings the model starts from, as
\* written in the setting
Listed(setting) == IF setting = Undefined THEN {} ELSE {READ, Grep}

Fold(c) == IF c \in 65..90 THEN c + 32 ELSE c
EqualIgnoringCase(a, b) ==
    Len(a) = Len(b) /\ \A i \in 1..Len(a) : Fold(a[i]) = Fold(b[i])

Restricted(r) == Listed(session[run[r].session].allowedTools) # {}
ListContains(r, toolName) ==
    \E n \in Listed(session[run[r].session].allowedTools) : EqualIgnoringCase(n, toolName)

\* Every permission.request event and every pending entry belongs to a call
\* that asked, so a call the gate settled has neither
OnlyAskedCallsAreAnnounced ==
    /\ \A s \in Sessions : \A i \in DOMAIN events[s] :
           \E r \in Started : \E k \in AskedCalls(r) :
               /\ run[r].session = s
               /\ events[s][i].toolUseId = calls[r][k].toolUseId
               /\ events[s][i].toolName = calls[r][k].toolName
    /\ \A s \in Sessions : \A id \in DOMAIN pendingPermissions[s] :
           LET entry == pendingPermissions[s][id]
           IN  /\ entry.call \in AskedCalls(entry.run)
               /\ calls[entry.run][entry.call].toolUseId = id
               /\ calls[entry.run][entry.call].toolName = entry.toolName

Announced(r, k) ==
    \E i \in DOMAIN events[run[r].session] :
        events[run[r].session][i] =
            [type |-> "permission.request", toolUseId |-> calls[r][k].toolUseId,
             toolName |-> calls[r][k].toolName, input |-> calls[r][k].input]

\* The call canUseTool has just returned from
JustCalled(r, k) ==
    /\ lastOp = Op("canUseTool", run[r].session, r, calls[r][k].toolUseId)
    /\ k = Len(calls[r])

\* C3: in a run whose mode is secure the engine gets allow for a tool call
\* only from an explicit response carrying allow for the request id that
\* was emitted for this call; what the gate, the timer or abort deliver is
\* a deny.
C3_SecureAllowOnlyByResponse ==
    \A r \in Started : run[r].permissionMode = "secure" =>
        \A k \in DOMAIN calls[r] :
            LET call == calls[r][k]
            IN  /\ call.promise.behavior = "allow" =>
                      /\ Asked(call)
                      /\ Announced(r, k)
                      /\ call.first.by = "response"
                      /\ call.first.result.behavior = "allow"
                /\ call.first.by \in {"gate", "timeout", "abort"} =>
                      call.promise.behavior = "deny"

\* C3 witness: a secure session in which one call was allowed by a
\* response and another denied by its timer
C3_Witness ==
    \E r \in Started :
        /\ session[run[r].session].permissionMode = "secure"
        /\ \E k \in DOMAIN calls[r] : calls[r][k].promise.behavior = "allow"
        /\ \E k \in DOMAIN calls[r] : calls[r][k].first.by = "timeout"

\* C4: for a tool other than AskUserQuestion, in either mode, a non-empty
\* allow-list that does not contain the tool name (letter case ignored)
\* makes canUseTool return the restriction deny at once, with no
\* permission.request and no pending entry; a list that contains the name
\* in any letter case never produces the restriction deny.
C4_AllowListRestriction ==
    /\ OnlyAskedCallsAreAnnounced
    /\ \A r \in Started : \A k \in DOMAIN calls[r] :
           LET call == calls[r][k]
           IN  (call.toolName # AskUserQuestion /\ Restricted(r)) =>
                   IF ListContains(r, call.toolName)
                   THEN call.promise.message # NotAllowed
                   ELSE /\ call.promise = Deny(NotAllowed)
                        /\ call.first.by = "gate"
                        /\ ~Asked(call)
                        /\ call.timer = "none"

\* C4 witness: under the list "READ, Grep" a Bash call was denied and a
\* Read call was not
C4_Witness ==
    \E r \in Started :
        /\ Restricted(r)
        /\ \E k \in DOMAIN calls[r] :
               calls[r][k].toolName = Bash /\ calls[r][k].promise = Deny(NotAllowed)
        /\ \E k \in DOMAIN calls[r] :
               calls[r][k].toolName = Read /\ calls[r][k].promise.message # NotAllowed

\* C5: a call of AskUserQuestion is never settled by the gate, in free and
\* in secure mode and whatever the allow-list: when canUseTool returns, the
\* request has been emitted, its entry is pending, its timer is armed and
\* the call is suspended.
C5_AskUserQuestionAlwaysAsks ==
    \A r \in Started : \A k \in DOMAIN calls[r] :
        LET call == calls[r][k]
        IN  call.toolName = AskUserQuestion =>
                /\ Asked(call)
                /\ Announced(r, k)
                /\ call.first.by # "gate"
                /\ JustCalled(r, k) =>
                       /\ call.promise = Pending
                       /\ call.timer = "armed"
                       /\ call.toolUseId \in DOMAIN Table(r)

\* C5 witness: free mode, a list without AskUserQuestion, and the call has
\* just been suspended
C5_Witness ==
    \E r \in Started : \E k \in DOMAIN calls[r] :
        /\ run[r].permissionMode = "free"
        /\ Restricted(r)
        /\ calls[r][k].toolName = AskUserQuestion
        /\ JustCalled(r, k)

\* C6: in free mode a call of a tool other than AskUserQuestion that passes
\* the allow-list check is allowed at once with the input it was called
\* with: no permission.request, no pending entry, no timer.
C6_FreeModeAllowsAtOnce ==
    /\ OnlyAskedCallsAreAnnounced
    /\ \A r \in Started : run[r].permissionMode = "free" =>
           \A k \in DOMAIN calls[r] :
               LET call == calls[r][k]
               IN  ( /\ call.toolName # AskUserQuestion
                     /\ Restricted(r) => ListContains(r, call.toolName) )
                   => /\ call.promise = Allow(call.input)
                      /\ call.first.by = "gate"
                      /\ ~Asked(call)
                      /\ call.timer = "none"

\* C6 witness: free mode under the list "READ, Grep": a Read call with the
\* second input has just been allowed
C6_Witness ==
    \E r \in Started : \E k \in DOMAIN calls[r] :
        /\ run[r].permissionMode = "free"
        /\ Restricted(r)
        /\ calls[r][k].toolName = Read
        /\ calls[r][k].promise = Allow("in2")
        /\ JustCalled(r, k)

\* C7: whenever abort() is called, every tool call of the run that is
\* suspended at that moment receives deny "Session aborted" in that step,
\* and when abort() has returned session.pendingPermissions holds no entry
\* of the run.
C7_AbortResolvesEverySuspendedCall ==
    [][\A r \in Started :
          (lastOp'.op \in {"abort", "abort.again"} /\ lastOp'.run = r) =>
              /\ \A k \in AskedCalls(r) :
                     ~Settled(calls[r][k]) =>
                         calls'[r][k].promise = Deny(SessionAborted)
              /\ \A id \in DOMAIN pendingPermissions'[run[r].session] :
                     pendingPermissions'[run[r].session][id].run # r]_vars

\* C8: a request whose timer expires before any response is resolved with
\* deny "timed out" by that callback and its entry is removed; afterwards
\* nothing is delivered to the call again, and a response naming its id
\* finds no entry and changes no state.
C8_TimeoutDeniesOnce ==
    /\ [](\A r \in Started : \A k \in AskedCalls(r) :
            calls[r][k].first.by = "timeout" =>
                /\ calls[r][k].promise = Deny(TimedOut)
                /\ calls[r][k].timer = "fired"
                /\ calls[r][k].toolUseId \notin DOMAIN Table(r))
    /\ [][\A r \in Started : \A k \in AskedCalls(r) :
            /\ (calls[r][k].timer # "fired" /\ calls'[r][k].timer = "fired") =>
                   /\ ~Settled(calls[r][k])
                   /\ lastOp' = Op("timeout", run[r].session, r, calls[r][k].toolUseId)
            /\ calls[r][k].first.by = "timeout" =>
                   /\ calls'[r][k] = calls[r][k]
                   /\ ( /\ lastOp'.op \in {"response", "response.miss"}
                        /\ lastOp'.id = calls[r][k].toolUseId
                        /\ lastOp'.sid = run[r].session )
                      => /\ lastOp'.op = "response.miss"
                         /\ UNCHANGED <<session, pendingPermissions, run, calls,
                                        events, nextId>>]_vars

\* C8 witness: a response arrived for the id of a request that had timed
\* out
C8_Witness ==
    \E r \in Started : \E k \in AskedCalls(r) :
        /\ calls[r][k].first.by = "timeout"
        /\ lastOp = Op("response.miss", run[r].session, 0, calls[r][k].toolUseId)

\* C9: resolving an identifier that is not in the session's pending table
\* (a response naming an id never issued or already resolved, or the
\* resolve function of an entry already removed) leaves the table and
\* every call, so every other entry, timer and suspended call, unchanged.
C9_ResolveUnknownIsNoOp ==
    [][ /\ lastOp'.op = "response.miss" =>
             /\ lastOp'.id \notin DOMAIN pendingPermissions[lastOp'.sid]
             /\ UNCHANGED <<session, pendingPermissions, run, calls, events, nextId>>
        /\ ( /\ lastOp'.op = "resolve"
              /\ lastOp'.id \notin DOMAIN pendingPermissions[lastOp'.sid] )
             => UNCHANGED <<session, pendingPermissions, run, calls, events, nextId>>
        /\ lastOp'.op = "response" =>
             lastOp'.id \in DOMAIN pendingPermissions[lastOp'.sid] ]_vars

\* C9 witness: the resolve function of an entry already removed was
\* called while another request was pending with its timer armed
C9_Witness ==
    \E r \in Started : \E k \in AskedCalls(r) : \E j \in Suspended(r) :
        /\ Settled(calls[r][k])
        /\ lastOp = Op("resolve", run[r].session, r, calls[r][k].toolUseId)
        /\ calls[r][j].timer = "armed"
        /\ calls[r][j].toolUseId \in DOMAIN Table(r)

\* C10: a request resolved by an explicit response or by abort has its
\* timer cancelled, and a cancelled timer stays cancelled: its callback
\* never runs, so it never delivers the timed-out deny or removes an entry.
C10_ResolvedTimerIsCancelled ==
    /\ [](\A r \in Started : \A k \in AskedCalls(r) :
            calls[r][k].first.by \in {"response", "abort"} =>
                calls[r][k].timer = "cleared")
    /\ [][\A r \in Started : \A k \in AskedCalls(r) :
            /\ calls[r][k].timer = "cleared" => calls'[r][k].timer = "cleared"
            /\ (lastOp'.op = "timeout" /\ lastOp'.id = calls[r][k].toolUseId) =>
                   calls[r][k].first.by = "none"]_vars

\* C10 witness: one request was resolved by a response and another by
\* abort
C10_Witness ==
    \E r \in Started :
        /\ \E k \in AskedCalls(r) : calls[r][k].first.by = "abort"
        /\ \E k \in AskedCalls(r) : calls[r][k].first.by = "response"

\* The permission.request events of session s that carry the identifier
Emitted(s, id) ==
    \E i \in DOMAIN events[s] :
        events[s][i].type = "permission.request" /\ events[s][i].toolUseId = id

\* C11: when onEvent is called with the permission.request of an
\* identifier the entry of that identifier is in session.pendingPermissions,
\* so that a response for an emitted identifier whose request has not been
\* resolved, also one given from inside the event handler, finds the entry
\* and resolves the suspended call.
C11_EntryPresentWhenAnnounced ==
    /\ [](handing # NotHanding =>
            handing.toolUseId \in DOMAIN pendingPermissions[run[handing.run].session])
    /\ [][( /\ lastOp'.op \in {"response", "response.miss"}
            /\ Emitted(lastOp'.sid, lastOp'.id)
            /\ ~\E r \in Started : \E k \in AskedCalls(r) :
                   calls[r][k].toolUseId = lastOp'.id /\ Settled(calls[r][k]) )
          => /\ lastOp'.op = "response"
             /\ \E r \in Started : \E k \in AskedCalls(r) :
                   calls'[r][k].toolUseId = lastOp'.id /\ Settled(calls'[r][k])]_vars

\* C12: every permission request gets an identifier that is not the key
\* of an entry in the session's pending table at that moment: the insert
\* adds one key and leaves every entry that was there as it was, the key
\* of an entry is the identifier the entry carries, and the calls that
\* are suspended at the same time have pairwise distinct identifiers.
C12_FreshIdentifier ==
    /\ [](\A r1 \in Started, r2 \in Started :
            \A k1 \in Suspended(r1), k2 \in Suspended(r2) :
              calls[r1][k1].toolUseId = calls[r2][k2].toolUseId
                => r1 = r2 /\ k1 = k2)
    /\ [](\A s \in Sessions : \A id \in DOMAIN pendingPermissions[s] :
            pendingPermissions[s][id].toolUseId = id)
    /\ [][(lastOp'.op = "canUseTool" /\ lastOp'.id # 0)
          => /\ lastOp'.id \notin DOMAIN pendingPermissions[lastOp'.sid]
             /\ DOMAIN pendingPermissions'[lastOp'.sid] =
                    DOMAIN pendingPermissions[lastOp'.sid] \cup {lastOp'.id}
             /\ \A id \in DOMAIN pendingPermissions[lastOp'.sid] :
                    pendingPermissions'[lastOp'.sid][id] =
                        pendingPermissions[lastOp'.sid][id]]_vars

\* A request is inserted while another entry is in the table
C12_Witness ==
    /\ lastOp.op = "canUseTool" /\ lastOp.id # 0
    /\ Cardinality(DOMAIN pendingPermissions[lastOp.sid]) >= 2
    /\ Cardinality(Suspended(lastOp.run)) >= 2

\* C13: every tool call suspended awaiting approval eventually receives
\* a decision, given only that an armed timer eventually fires; no
\* response and no abort is needed, and it holds for calls intercepted
\* before, during or after abort().
C13_SuspendedCallIsDecided ==
    \A k \in 1..MaxCalls :
        (k \in DOMAIN calls[1] /\ Asked(calls[1][k]))
            ~> (k \in DOMAIN calls[1] /\ Settled(calls[1][k]))

\* A call intercepted after abort() (the first abort() settles every call
\* suspended before it) has just been decided by its timer
C13_Witness ==
    /\ lastOp.op = "timeout" /\ lastOp.run = 1
    /\ run[1].aborted
    /\ \E k \in AskedCalls(1) :
          /\ calls[1][k].toolUseId = lastOp.id
          /\ calls[1][k].first.by = "timeout"
          /\ calls[1][k].promise = Deny(TimedOut)

\* The runs that were aborted while their loop was reading the stream
AbortedRuns == {r \in Started : stream[r].abortedAt >= 0}
Over(r) == stream[r].pc = "done"
Log(r) == events[run[r].session]

\* The session.status events the session's callback got after abort()
StatusAfterAbort(r) == {i \in StatusEvents(Log(r)) : i > stream[r].abortedAt}

\* C14: after abort() is called on a running session a session.status
\* event that marks the session as not running (completed or error) is
\* subsequently emitted for it: when the run is over, such an event has
\* been emitted after the abort.
C14_AbortIsFollowedByStatus ==
    \A r \in AbortedRuns :
        Over(r) => \E i \in StatusAfterAbort(r) :
                      Log(r)[i].status \in {"completed", "error"}

\* C15: after abort() has been called during a run the runner emits no
\* session.status event with status completed for that run, whether the
\* stream then throws or simply ends.
C15_NoCompletedAfterAbort ==
    \A r \in AbortedRuns :
        \A i \in StatusAfterAbort(r) : Log(r)[i].status # "completed"

\* C16: a run ended by abort() never emits a session.status event with
\* status error: whatever the stream throws after the abort is swallowed
\* without a status event.
C16_NoErrorAfterAbort ==
    \A r \in AbortedRuns :
        \A i \in StatusAfterAbort(r) : Log(r)[i].status # "error"

\* The stream of run r fails in this step with something that is not the
\* error of a cancellation, and abort() has not been called
Fails(r) ==
    /\ stream[r].pc = "running" /\ stream'[r].pc = "done"
    /\ stream'[r].thrown \notin {NoError, AbortError}
    /\ ~run[r].aborted

\* C17: when the stream fails with anything other than a cancellation and
\* no abort was requested, the runner emits exactly one session.status
\* event, with status error and the failure as its detail, and once the
\* run is over it forwards no stream.message and emits no status, so no
\* completed follows.
C17_FailureIsReportedOnce ==
    /\ [][\A r \in Started :
            Fails(r) =>
              /\ Len(Log(r)') = Len(Log(r)) + 1
              /\ SubSeq(Log(r)', 1, Len(Log(r))) = Log(r)
              /\ Log(r)'[Len(Log(r)')] =
                    [type |-> "session.status", sessionId |-> run[r].session,
                     status |-> "error",
                     error |-> <<stream'[r].thrown.name, ": ",
                                 stream'[r].thrown.message>>]]_vars
    /\ [][\A r \in Started : Over(r) => Log(r)' = Log(r)]_vars

\* The stream has just failed, without abort, after an event was forwarded
C17_Witness ==
    /\ lastOp = Op("throw", "s1", 1, 0)
    /\ stream[1].thrown = EngineError
    /\ ~run[1].aborted
    /\ Len(stream[1].produced) >= 1
    /\ Log(1)[Len(Log(1))].type = "session.status"
    /\ Log(1)[Len(Log(1))].status = "error"

\* The calls of run r the engine got deny for
DeniedCalls(r) == {k \in DOMAIN calls[r] : calls[r][k].promise.behavior = "deny"}

\* Call k of run r is denied in this step
DeniedNow(r, k) ==
    /\ k \in DOMAIN calls'[r]
    /\ calls'[r][k].promise.behavior = "deny"
    /\ k \in DOMAIN calls[r] => calls[r][k].promise.behavior = "pending"

\* C18: a tool call denied by the allow-list restriction, by a user deny,
\* by the timeout or by abort is returned to the engine as a deny
\* decision; the step that denies it emits no event, so no session.status
\* error, and leaves the loop where it was, so after a restriction, user
\* or timeout deny the runner is still reading and forwarding the stream.
C18_DenyIsNotAnError ==
    /\ [](\A r \in Started : \A k \in DOMAIN calls[r] :
            LET call == calls[r][k]
            IN  /\ (call.first.by = "gate" /\ run[r].permissionMode = "secure")
                      => call.promise = Deny(NotAllowed)
                /\ call.first.by = "timeout" => call.promise = Deny(TimedOut)
                /\ call.first.by = "abort" => call.promise = Deny(SessionAborted)
                /\ (call.first.by = "response" /\ call.first.result.behavior = "deny")
                      => call.promise = call.first.result)
    /\ [][\A r \in Started : \A k \in 1..MaxCalls :
            DeniedNow(r, k) =>
              /\ Log(r)' = Log(r)
              /\ stream'[r].pc = stream[r].pc
              /\ stream'[r].produced = stream[r].produced
              /\ status' = status]_vars

\* Two calls were denied, one by its timer and one by the restriction or
\* the user, and the next event of the stream has just been forwarded
C18_Witness ==
    /\ lastOp = Op("message", "s1", 1, 0)
    /\ ~run[1].aborted
    /\ Len(stream[1].produced) = 1
    /\ Log(1)[Len(Log(1))].type = "stream.message"
    /\ \E k \in DeniedCalls(1) : calls[1][k].first.by = "timeout"
    /\ \E k \in DeniedCalls(1) : calls[1][k].first.by \in {"gate", "response"}

IsStreamMessage(event) == event.type = "stream.message"

\* What the stream.message events of a log carry, in the order of the log
Forwarded(log) ==
    LET sent == SelectSeq(log, IsStreamMessage)
    IN  [i \in 1..Len(sent) |-> sent[i].message]

\* C19: within one run the stream.message events handed to onEvent carry
\* exactly the events the engine produced, each once, unmodified and in
\* the engine's order, under the run's session id; tool calls that were
\* suspended in between drop, duplicate and reorder nothing.
C19_MessagesForwardedInOrder ==
    \A r \in Started :
        /\ Forwarded(Log(r)) = stream[r].produced
        /\ \A i \in DOMAIN Log(r) :
              IsStreamMessage(Log(r)[i]) => Log(r)[i].sessionId = run[r].session

\* An event was forwarded, then a tool call was suspended and decided,
\* and the engine's next event, a different one, has just been forwarded
C19_Witness ==
    /\ lastOp = Op("message", "s1", 1, 0)
    /\ Len(stream[1].produced) = 2
    /\ stream[1].produced[1] # stream[1].produced[2]
    /\ \E i \in DOMAIN Log(1) :
          /\ i > 1 /\ i < Len(Log(1))
          /\ IsStreamMessage(Log(1)[1])
          /\ Log(1)[i].type = "permission.request"
          /\ \E k \in AskedCalls(1) :
                calls[1][k].toolUseId = Log(1)[i].toolUseId /\ Settled(calls[1][k])

\* The places of a log where a result event is forwarded
ResultsForwarded(log) ==
    {i \in DOMAIN log : IsStreamMessage(log[i]) /\ log[i].message.type = "result"}

\* The stream.message events of a log after place i
LaterMessages(log, i) == {j \in DOMAIN log : j > i /\ IsStreamMessage(log[j])}

\* C20: for every result event read from the stream the runner emits,
\* right after the stream.message for it and before it forwards a later
\* event of the engine, one session.status event, with status completed
\* when the subtype is success and error for every other subtype.
C20_ResultIsFollowedByStatus ==
    \A r \in Started : \A i \in ResultsForwarded(Log(r)) :
        /\ i + 1 \in DOMAIN Log(r)
        /\ Log(r)[i + 1] =
              [type |-> "session.status", sessionId |-> run[r].session,
               status |-> IF Log(r)[i].message.subtype = "success"
                          THEN "completed" ELSE "error",
               error |-> NoDetail]
        /\ LaterMessages(Log(r), i) # {} =>
              Cardinality({j \in StatusEvents(Log(r)) :
                             j > i /\ j < SetMin(LaterMessages(Log(r), i))}) = 1

\* A result that is not a success was reported as error and a later
\* event of the engine has been forwarded after it
C20_Witness ==
    /\ 1 \in Started
    /\ \E i \in ResultsForwarded(Log(1)) :
          /\ Log(1)[i].message = ResultError
          /\ Log(1)[i + 1].status = "error"
          /\ LaterMessages(Log(1), i) # {}

\* The stream of run r is exhausted in this step
Ends(r) ==
    /\ stream[r].pc = "running" /\ stream'[r].pc = "done"
    /\ stream'[r].thrown = NoError

NoResult(r) == \A i \in DOMAIN stream[r].produced : stream[r].produced[i].type # "result"

\* C21: when the stream ends without having produced a result event and
\* the session is still marked running, the runner emits exactly one
\* session.status event, with status completed, and nothing after it;
\* when the session is not marked running at exhaustion it emits nothing.
C21_ExhaustionCompletesRunningSession ==
    /\ [][\A r \in Started :
            (Ends(r) /\ NoResult(r) /\ status[run[r].session] = "running") =>
                Log(r)' = Append(Log(r),
                                 [type |-> "session.status",
                                  sessionId |-> run[r].session,
                                  status |-> "completed", error |-> NoDetail])]_vars
    /\ [][\A r \in Started :
            (Ends(r) /\ status[run[r].session] # "running") => Log(r)' = Log(r)]_vars
    /\ [](\A r \in Started :
            (Over(r) /\ stream[r].thrown = NoError /\ NoResult(r)) =>
                Cardinality(StatusEvents(Log(r))) <= 1)

\* The stream has just ended after an event that is no result, with the
\* session marked running, and completed is the last event
C21_Witness ==
    /\ lastOp = Op("end", "s1", 1, 0)
    /\ Len(stream[1].produced) >= 1 /\ NoResult(1)
    /\ status["s1"] = "running"
    /\ Log(1)[Len(Log(1))].type = "session.status"
    /\ Log(1)[Len(Log(1))].status = "completed"
    /\ Cardinality(StatusEvents(Log(1))) = 1

\* An init event that carries a session id
CarriesToken(message) ==
    message.type = "system" /\ message.subtype = "init" /\ message.session_id # ""

\* The last session id the stream of run r produced in an init event
LastToken(r) ==
    LET at == {i \in DOMAIN stream[r].produced : CarriesToken(stream[r].produced[i])}
    IN  IF at = {} THEN "none" ELSE stream[r].produced[SetMax(at)].session_id

\* C22: for every system init event that carries a non-empty session id
\* the runner records the id as the session's resume token and calls
\* onSessionUpdate with it right before it forwards the event as
\* stream.message; an init event without a session id and every other
\* event cause no session update and leave the token as it was.
C22_InitTokenIsCaptured ==
    \A r \in Started :
        /\ \A i \in DOMAIN Log(r) :
              (IsStreamMessage(Log(r)[i]) /\ CarriesToken(Log(r)[i].message)) =>
                  /\ i > 1
                  /\ Log(r)[i - 1] = [type |-> "session.update",
                                      claudeSessionId |-> Log(r)[i].message.session_id]
        /\ \A i \in DOMAIN Log(r) :
              Log(r)[i].type = "session.update" =>
                  /\ i + 1 \in DOMAIN Log(r)
                  /\ IsStreamMessage(Log(r)[i + 1])
                  /\ CarriesToken(Log(r)[i + 1].message)
        /\ claudeSessionId[run[r].session] = LastToken(r)

\* An init event without an id and another event were forwarded without
\* a session update, then an init event with an id was captured
C22_Witness ==
    /\ 1 \in Started
    /\ Len(stream[1].produced) >= 2
    /\ stream[1].produced[1] \in {SystemInitNoId, Assistant}
    /\ stream[1].produced[Len(stream[1].produced)] = SystemInit
    /\ claudeSessionId["s1"] = "sdk1"
    /\ Cardinality({i \in DOMAIN Log(1) : Log(1)[i].type = "session.update"}) = 1

\* The runs whose engine asked for exactly one tool call, a Read
OneRead == {r \in Started : Len(calls[r]) = 1 /\ calls[r][1].toolName = Read}

\* The place of the call's permission.request in the session's events
RequestAt(r) ==
    {i \in DOMAIN Log(r) :
        Log(r)[i] = [type |-> "permission.request",
                     toolUseId |-> calls[r][1].toolUseId,
                     toolName |-> Read, input |-> calls[r][1].input]}

\* The call was answered with allow for its id, carrying its input
AllowedAsAsked(r) ==
    calls[r][1].first = [by |-> "response", result |-> Allow(calls[r][1].input)]

\* C23: in a secure session without allow-list whose prompt triggers one
\* Read tool call the permission.request for Read is emitted once; while
\* the call waits nothing follows it, so the stream.message events after
\* the tool call come only after the response; when the call was answered
\* with allow the engine gets allow with the original input; and when the
\* stream has ended the last event is session.status completed.
C23_ReadScenarioOrder ==
    \A r \in OneRead :
        /\ Cardinality(RequestAt(r)) = 1
        /\ ~Settled(calls[r][1]) => RequestAt(r) = {Len(Log(r))}
        /\ AllowedAsAsked(r) =>
              /\ calls[r][1].promise = Allow(calls[r][1].input)
              /\ \A i \in DOMAIN Log(r) :
                    i > SetMax(RequestAt(r)) =>
                        Log(r)[i].type \in {"stream.message", "session.status"}
        /\ (AllowedAsAsked(r) /\ Over(r)) =>
              /\ Log(r)[Len(Log(r))].type = "session.status"
              /\ Log(r)[Len(Log(r))].status = "completed"

\* The scenario has run to its end: the request, the allow response, an
\* event forwarded after it and completed as the last event
C23_Witness ==
    /\ 1 \in OneRead
    /\ AllowedAsAsked(1) /\ Over(1)
    /\ calls[1][1].input = "in1"
    /\ RequestAt(1) = {1}
    /\ Len(Log(1)) = 3
    /\ Log(1)[2] = [type |-> "stream.message", sessionId |-> "s1",
                     message |-> Assistant]
    /\ Log(1)[3].type = "session.status" /\ Log(1)[3].status = "completed"

\* What belongs to session o: its table, its events, and the calls, the
\* abort signal and the stream of its runs
Untouched(o) ==
    /\ pendingPermissions'[o] = pendingPermissions[o]
    /\ events'[o] = events[o]
    /\ status'[o] = status[o]
    /\ \A q \in Runs :
          run[q].session = o =>
              /\ calls'[q] = calls[q]
              /\ run'[q] = run[q]
              /\ stream'[q] = stream[q]

\* C24: with two sessions running at the same time, abort() on one
\* session's handle and a response or a timeout for one session's request
\* deliver no decision to a tool call of the other session, leave the
\* other session's pending table and timers as they are and do not stop
\* the other session's stream.
C24_SessionsAreIndependent ==
    [][lastOp'.op \in ResolvingOps =>
          \A o \in Sessions \ {lastOp'.sid} : Untouched(o)]_vars

\* Both sessions have a suspended call and s1 has just been aborted: its
\* call is denied, the call of s2 still waits with its timer armed
C24_Witness ==
    /\ lastOp = Op("abort", "s1", 1, 0)
    /\ stream[2].pc = "running"
    /\ \E k \in Suspended(2) : calls[2][k].timer = "armed"
    /\ pendingPermissions["s2"] # EmptyMap
    /\ \E k \in AskedCalls(1) : calls[1][k].promise = Deny(SessionAborted)

\* The runs of session s that have neither finished nor been aborted
ActiveRuns(s) ==
    {r \in Started : run[r].session = s /\ stream[r].pc = "running" /\ ~run[r].aborted}

\* C25: at every moment a session has at most one active runner, a run
\* started while an earlier run of the session has neither finished nor
\* been aborted being rejected, so the entries in a session's pending
\* table at one time are all of the same run.
C25_AtMostOneActiveRunner ==
    \A s \in Sessions :
        /\ Cardinality(ActiveRuns(s)) <= 1
        /\ \A id1 \in DOMAIN pendingPermissions[s], id2 \in DOMAIN pendingPermissions[s] :
              pendingPermissions[s][id1].run = pendingPermissions[s][id2].run

\* C26: an allowedTools setting that names no tool (undefined, empty,
\* only whitespace, only separators) imposes no restriction:
\* parseAllowedTools returns null for it, which the run then holds, and
\* no tool call of the run is denied as not allowed by the restriction.
C26_BlankSettingIsNoRestriction ==
    \A r \in Started :
        session[run[r].session].allowedTools \in NoToolSettings =>
            /\ run[r].allowedTools = Null
            /\ \A k \in DOMAIN calls[r] : calls[r][k].promise # Deny(NotAllowed)

\* What the gate did with a call: it settled it with allow or deny, or it
\* sent a permission request
GateDid(call) == IF Asked(call) THEN "ask" ELSE call.first.result.behavior

C28_AbortIsIdempotent ==
    [][lastOp'.op = "abort.again" =>
          /\ calls' = calls
          /\ pendingPermissions' = pendingPermissions
          /\ events' = events
          /\ status' = status
          /\ run' = run
          /\ stream' = stream
          /\ claudeSessionId' = claudeSessionId]_vars

\* abort() has just been called again while a call that was intercepted
\* after the first abort() is suspended
C28_Witness ==
    /\ lastOp = Op("abort.again", "s1", 1, 0)
    /\ run[1].aborted
    /\ Suspended(1) # {}
    /\ pendingPermissions["s1"] # EmptyMap
    /\ \E k \in AskedCalls(1) : calls[1][k].promise = Deny(SessionAborted)

\* The step of initialize() call c that ran last
InitStepOf(c) ==
    /\ lastOp.id = c
    /\ lastOp.op \in {"initialize", "connect.rejected", "connect.resolved",
                      "listTools.resolved", "listTools.rejected"}

\* No client, no server process, no registered tool, not ready
Clean(m) ==
    /\ m.client = 0
    /\ m.serverProcess = 0
    /\ m.tools = {}
    /\ ~isReady(m)

\* C29: an initialize() call in which a step failed (spawn() threw, connect()
\* or listTools() rejected, or loadTools() found no client) has returned
\* false, and the step in which it failed leaves the manager with no client,
\* no server process, no registered tool and isReady() false
C29_FailedInitializeLeavesManagerClean ==
    \A c \in DOMAIN initCalls :
        initCalls[c].failed # "none" =>
            /\ initCalls[c].returned = "false"
            /\ InitStepOf(c) => Clean(manager)

\* listTools() rejects for a manager that held a client, a running server
\* process and, from an earlier call, registered tools
C29_Witness ==
    /\ lastOp.op = "listTools.rejected"
    /\ initCalls[lastOp.id].failed = "listTools"
    /\ initCalls[lastOp.id].closed
    /\ processes[initCalls[lastOp.id].process].killed
    /\ \E c \in DOMAIN initCalls : initCalls[c].returned = "true"
    /\ Clean(manager)

\* C30: the options passed to initializeMCPManager take effect: with enabled
\* false the call returns false and spawns no process, and a process the call
\* spawns runs the server path with the server arguments that were passed
C30_PassedOptionsTakeEffect ==
    \A c \in DOMAIN initCalls :
        initCalls[c].via = "initializeMCPManager" =>
            LET options == mergeOptions(initCalls[c].passed)
                p == initCalls[c].process
            IN  /\ ~options.enabled =>
                      initCalls[c].returned = "false" /\ p = 0
                /\ p # 0 =>
                      /\ processes[p].command = options.serverPath
                      /\ processes[p].args = options.serverArgs

\* C31: in one run the runner emits at most one terminal session.status
\* event: once the stream has produced a result event, for which a status
\* was emitted, the exhaustion of the stream emits nothing, whatever
\* session.status is at that moment.
C31_ExhaustionAfterResultIsSilent ==
    [][\A r \in Started : (Ends(r) /\ ~NoResult(r)) => Log(r)' = Log(r)]_vars

\* C32: a tool call that requires approval and is intercepted after the
\* abort signal of its run has fired is resolved in that step with deny
\* "Session aborted": it is not left suspended and the step leaves no
\* entry for it in session.pendingPermissions.
C32_CallAfterAbortIsDeniedAtOnce ==
    [][\A r \in Started :
          (run[r].aborted /\ Len(calls'[r]) = Len(calls[r]) + 1) =>
              LET call == calls'[r][Len(calls'[r])]
              IN  gateOutcome(call.toolName, run[r].permissionMode,
                              run[r].allowedTools) = "ask" =>
                      /\ call.promise = Deny(SessionAborted)
                      /\ pendingPermissions'[run[r].session] =
                            pendingPermissions[run[r].session]]_vars

\* The permission.request sent for call k of run r
RequestOf(r, k) ==
    [type |-> "permission.request", toolUseId |-> calls[r][k].toolUseId,
     toolName |-> calls[r][k].toolName, input |-> calls[r][k].input]

\* C33: between callbacks session.pendingPermissions holds exactly one
\* entry for each tool call that is suspended awaiting approval and no
\* other entry: the key of the entry is the identifier sent in the call's
\* permission.request and the entry carries the call's tool name and
\* input; an entry leaves the table only in the response, the timeout or
\* the abort that resolves its call.
C33_TableIsTheSuspendedCalls ==
    /\ [](\A r \in Started :
            /\ \A k \in Suspended(r) :
                  LET id == calls[r][k].toolUseId
                  IN  /\ id \in DOMAIN Table(r)
                      /\ Table(r)[id].toolUseId = id
                      /\ Table(r)[id].toolName = calls[r][k].toolName
                      /\ Table(r)[id].input = calls[r][k].input
                      /\ \E i \in DOMAIN Log(r) : Log(r)[i] = RequestOf(r, k)
            /\ \A id \in DOMAIN Table(r) :
                  Cardinality({k \in Suspended(r) : calls[r][k].toolUseId = id}) = 1)
    /\ [][\A r \in Started : \A id \in DOMAIN Table(r) :
            id \notin DOMAIN pendingPermissions'[run[r].session] =>
                /\ lastOp'.op \in {"response", "resolve", "timeout", "abort"}
                /\ \E k \in Suspended(r) :
                      /\ calls[r][k].toolUseId = id
                      /\ Settled(calls'[r][k])]_vars

\* Two calls were suspended; a response resolved one and the other is
\* still suspended with its entry
C33_Witness ==
    /\ 1 \in Started
    /\ lastOp.op = "response"
    /\ Cardinality(Suspended(1)) = 1
    /\ Cardinality(DOMAIN Table(1)) = 1
    /\ \E k \in AskedCalls(1) : calls[1][k].first.by = "response"

\* C34: with several requests pending in one session, a response or a
\* timeout for one request removes that request's entry and resolves that
\* request's call, and every other suspended call stays as it was: still
\* suspended, its timer armed, its entry in the table unchanged.
C34_OnlyTheNamedRequestIsResolved ==
    [][\A r \in Started :
          ( /\ lastOp'.op \in {"response", "resolve", "timeout"}
            /\ lastOp'.sid = run[r].session ) =>
              /\ \A k \in Suspended(r) :
                    IF calls[r][k].toolUseId = lastOp'.id
                    THEN /\ Settled(calls'[r][k])
                         /\ lastOp'.id \notin DOMAIN pendingPermissions'[run[r].session]
                    ELSE /\ calls'[r][k] = calls[r][k]
                         /\ calls'[r][k].timer = "armed"
                         /\ calls[r][k].toolUseId
                               \in DOMAIN pendingPermissions'[run[r].session]
                         /\ pendingPermissions'[run[r].session][calls[r][k].toolUseId]
                               = Table(r)[calls[r][k].toolUseId]
              /\ Cardinality(DOMAIN Table(r)
                               \ DOMAIN pendingPermissions'[run[r].session]) <= 1]_vars

\* The timer of one request has just fired while another request is still
\* suspended with its timer armed and its entry in the table
C34_Witness ==
    /\ 1 \in Started
    /\ lastOp.op = "timeout"
    /\ \E k \in AskedCalls(1) :
          /\ calls[1][k].first.by = "timeout"
          /\ calls[1][k].toolUseId = lastOp.id
    /\ \E j \in Suspended(1) :
          /\ calls[1][j].timer = "armed"
          /\ calls[1][j].toolUseId \in DOMAIN Table(1)

\* The steps of the caller: it marks the session running when it starts the
\* run and applies a status event
CallerOps == {"runClaude", "updateSession"}

\* C35: the runner never assigns session.status: no step of the loop, of
\* the permission callback or of a resolver changes it, and when the loop
\* decides on a status it emits a session.status event instead; of the
\* session's fields these steps write only the resume token, in the step
\* of an init event that carries one, and the pending-permission table.
C35_RunnerWritesTokenAndTableOnly ==
    /\ [][lastOp'.op \notin CallerOps => status' = status]_vars
    /\ [][session' = session]_vars
    /\ [][claudeSessionId' # claudeSessionId =>
            /\ lastOp'.op = "message"
            /\ \E r \in Started :
                  LET message == stream'[r].produced[Len(stream'[r].produced)]
                  IN  /\ IsInit(message)
                      /\ claudeSessionId'[run[r].session] = message.session_id]_vars
    /\ [][pendingPermissions' # pendingPermissions =>
            lastOp'.op \in {"canUseTool", "response", "timeout", "abort"}]_vars

\* The loop has reported error for a result and completed at exhaustion,
\* the resume token is captured, a request was resolved, and session.status
\* is still what the caller set
C35_Witness ==
    /\ lastOp = Op("end", "s1", 1, 0)
    /\ status["s1"] = "running"
    /\ claudeSessionId["s1"] = "sdk1"
    /\ Cardinality(StatusEvents(events["s1"])) = 2
    /\ \E k \in AskedCalls(1) : Settled(calls[1][k])

\* The permission mode set on the session of run r
ModeSet(r) == session[run[r].session].permissionMode

\* C36: a session with no permission mode set is run as secure: a tool
\* call of its run is allowed only by a response that allows it, and the
\* engine is started without the bypass-permissions flags; the flags are
\* passed exactly when the mode set is free.
C36_NoModeIsSecure ==
    \A r \in Started :
        /\ ModeSet(r) = "undefined" =>
              /\ run[r].permissionMode = "secure"
              /\ ~bypassFlags(run[r].permissionMode)
              /\ \A k \in DOMAIN calls[r] :
                    calls[r][k].promise.behavior = "allow" =>
                        /\ Asked(calls[r][k])
                        /\ calls[r][k].first.by = "response"
                        /\ calls[r][k].first.result = calls[r][k].promise
        /\ bypassFlags(run[r].permissionMode) <=> ModeSet(r) = "free"

\* In a session with no mode set one tool call was allowed by a response
\* and another is waiting for its answer
C36_Witness ==
    /\ 1 \in Started
    /\ ModeSet(1) = "undefined"
    /\ \E k \in AskedCalls(1) :
          /\ calls[1][k].promise = Allow("in1")
          /\ calls[1][k].toolName = Bash
    /\ Suspended(1) # {}

\* C37: in every reachable state of the manager, also when 'error' and
\* 'exit' events of server processes or other calls run between the awaits
\* of initialize(), isInitialized implies that the client and the server
\* process reference are both set.
C37_InitializedHasClientAndProcess ==
    manager.isInitialized => (manager.client # 0 /\ manager.serverProcess # 0)

\* The server processes that run and were not sent a signal
Running == {p \in DOMAIN processes : ~processes[p].killed /\ ~processes[p].gone}

\* C38: after any sequence of initialize() and cleanup() calls on one
\* manager at most one spawned server process is running without having
\* been sent a kill signal: a process that a later initialize() replaces
\* has been terminated.
C38_AtMostOneRunningProcess ==
    /\ Cardinality(Running) <= 1
    /\ \A p \in Running : manager.serverProcess = p

\* The tools of a response that the manager's allowedTools lets through
Let(m, listed) ==
    IF Len(m.options.allowedTools) = 0
    THEN listed
    ELSE {t \in listed : includes(m.options.allowedTools, t)}

\* C39: when initialize() has just succeeded the registered tools are
\* exactly the tools the server listed, or those of them named in
\* allowedTools when it is not empty; executeTool() calls the server only
\* for a registered tool on an initialized manager and throws otherwise.
C39_RegisteredToolsAreTheServersTools ==
    /\ [](lastOp.op = "listTools.resolved" =>
            manager.tools = Let(manager, initCalls[lastOp.id].listed))
    /\ [][lastOp'.op = "callTool" =>
            /\ manager.isInitialized /\ manager.client # 0
            /\ hasTool(manager, lastOp'.sid)]_vars
    /\ [][lastOp'.op \in {"executeTool.notInitialized", "executeTool.notFound"} =>
            ~(isReady(manager) /\ hasTool(manager, lastOp'.sid))]_vars

====
